---------------------------- MODULE Spec2Model ----------------------------
(***************************************************************************)
(* A model of sludge-cicd (src/src/main.rs, markdown.rs, toml.rs,          *)
(* utils.rs): workspace packages, the topological publish order, release   *)
(* note extraction and the publish step of the pipeline.                   *)
(*                                                                         *)
(* Text is modelled as a sequence of one-character strings, so that        *)
(* formatting (format!), suffix and substring tests (ends_with, contains), *)
(* trimming and line splitting are computed as the code computes them.     *)
(* Option<T> is modelled as a tuple: None is <<>>, Some(x) is <<x>>.       *)
(***************************************************************************)
EXTENDS Integers, Sequences, FiniteSets, TLC

VARIABLES
    pc,          \* position of the run: which operation acts next / how it ended
    out,         \* find_packages: the Vec<Package> collected by the directory walk
    sorted,      \* the value sort_packages produced (an order, or a panic)
    workspace,   \* Workspace { version, changelog }
    files,       \* the change documents on disk: path -> text
    packages,    \* Pipeline.packages
    params,      \* Params
    current_branch, \* Some(output of `git branch --show-current`) once read
    tags,        \* Some(the set of tags `git tag --list` printed) once read
    to_publish,  \* step_publish: Some(to_publish) once computed
    separate_tags, \* step_publish: Some(separate_tags) once computed
    cmds,        \* the external commands executed so far, in order
    result,      \* Result of the operation that ended the run
    self0,       \* the text a Markdown or Toml value wraps (self.0)
    ret          \* what a method called on it returned

vars == <<pc, out, sorted, workspace, files, packages, params, current_branch,
          tags, to_publish, separate_tags, cmds, result, self0, ret>>

----------------------------------------------------------------------------
(* Bounds of the model *)

MaxPkgs == 3
MaxKeys == 3
MaxUnits == 2
MaxTags == 2

----------------------------------------------------------------------------
(* Option<T> *)

None == <<>>
Some(x) == <<x>>
IsSome(o) == o # <<>>
Unwrap(o) == o[1]

----------------------------------------------------------------------------
(* Text: sequences of one-character strings *)

\* The characters of the model in ascending byte order (str's Ord is bytewise).
Alphabet == <<"\n", " ", "#", "-", ".", "1", "2", "A", "a", "b", "c", "d", "e", "v">>

Ord(c) == CHOOSE i \in 1..Len(Alphabet) : Alphabet[i] = c

RECURSIVE StrLess(_, _)
StrLess(s, t) ==
    IF t = <<>> THEN FALSE
    ELSE IF s = <<>> THEN TRUE
    ELSE IF s[1] # t[1] THEN Ord(s[1]) < Ord(t[1])
    ELSE StrLess(Tail(s), Tail(t))

StartsWith(s, p) == Len(p) <= Len(s) /\ SubSeq(s, 1, Len(p)) = p

EndsWith(s, p) == Len(p) <= Len(s) /\ SubSeq(s, Len(s) - Len(p) + 1, Len(s)) = p

Contains(s, p) == \E i \in 0..(Len(s) - Len(p)) : SubSeq(s, i + 1, i + Len(p)) = p

RECURSIVE Reverse(_)
Reverse(s) == IF s = <<>> THEN <<>> ELSE Append(Reverse(Tail(s)), Head(s))

SeqContains(s, x) == \E i \in 1..Len(s) : s[i] = x

SeqsUpTo(S, n) == UNION {[1..k -> S] : k \in 0..n}

----------------------------------------------------------------------------
(* Text operations of the standard library, as the code uses them *)

IsWhitespace(c) == c \in {" ", "\n"}

\* str::trim_start, str::trim_end, str::trim
RECURSIVE TrimStart(_)
TrimStart(s) ==
    IF s # <<>> /\ IsWhitespace(Head(s)) THEN TrimStart(Tail(s)) ELSE s

RECURSIVE TrimEnd(_)
TrimEnd(s) ==
    IF s # <<>> /\ IsWhitespace(s[Len(s)])
    THEN TrimEnd(SubSeq(s, 1, Len(s) - 1))
    ELSE s

Trim(s) == TrimEnd(TrimStart(s))

\* str::trim_start_matches('#')
RECURSIVE TrimStartMatches(_, _)
TrimStartMatches(s, c) ==
    IF s # <<>> /\ Head(s) = c THEN TrimStartMatches(Tail(s), c) ELSE s

\* str::to_ascii_lowercase
LowerOf(c) == IF c = "A" THEN "a" ELSE IF c = "B" THEN "b" ELSE c
ToAsciiLowercase(s) == [i \in 1..Len(s) |-> LowerOf(s[i])]

\* The position of the first c in s, 0 when there is none.
IndexOf(s, c) ==
    IF \E i \in 1..Len(s) : s[i] = c
    THEN CHOOSE i \in 1..Len(s) : s[i] = c /\ \A k \in 1..(i - 1) : s[k] # c
    ELSE 0

----------------------------------------------------------------------------
(* utils.rs: next_line.  None, or Some of the line and the new remainder. *)

\* Lines 6-16, with nl the position of the first "\n" in the text (0: none).
SplitLine(text, nl) ==
    IF nl # 0
    THEN Some([line |-> SubSeq(text, 1, nl - 1),
               rest |-> SubSeq(text, nl + 1, Len(text))])
    ELSE IF text = <<>> THEN None
    ELSE Some([line |-> text, rest |-> <<>>])

next_line(text) == SplitLine(text, IndexOf(text, "\n"))

----------------------------------------------------------------------------
(* markdown.rs: start_of_section and Markdown::sections *)

\* Lines 49-61, with line the trimmed line.
TitleOfAtLeast(level, line) ==
    IF ~StartsWith(line, <<"#">>) THEN None
    ELSE IF Len(line) - Len(TrimStartMatches(line, "#")) >= level
    THEN Some(Trim(TrimStartMatches(line, "#")))
    ELSE None

TitleOf(level, line) ==
    IF ~StartsWith(line, <<"#">>) THEN None
    ELSE IF Len(line) - Len(TrimStartMatches(line, "#")) = level
    THEN Some(Trim(TrimStartMatches(line, "#")))
    ELSE None

start_of_section(level, line0) == TitleOf(level, Trim(line0))

\* start_of_section(level, line) of the line that next_line returned, if any.
LineName(nl, level) ==
    IF nl = None THEN None ELSE start_of_section(level, Unwrap(nl).line)

\* The first loop (lines 19-26): skip to the first line that starts a section.
\* FirstSectionStep is one iteration, with nl the result of next_line and name
\* that of start_of_section.
RECURSIVE FirstSection(_, _)
FirstSectionStep(nl, name, level) ==
    IF nl = None THEN None
    ELSE IF name # None
    THEN Some([name |-> Unwrap(name), remainder |-> Unwrap(nl).rest])
    ELSE FirstSection(Unwrap(nl).rest, level)

FirstSectionLine(nl, level) == FirstSectionStep(nl, LineName(nl, level), level)

FirstSection(remainder, level) == FirstSectionLine(next_line(remainder), level)

\* The second loop (lines 31-42).  section_contents and remainder are suffixes of
\* the text, so section_contents[..section_contents.len() - remainder.len()] is
\* the prefix of section_contents that ends where remainder begins.
\* RestSectionsStep is one iteration, with contents that prefix trimmed, nl the
\* result of next_line and name that of start_of_section.
RECURSIVE RestSections(_, _, _, _, _)
RestSectionsStep(level, section_name, section_contents, acc, contents, nl, name) ==
    IF nl = None
    THEN Append(acc, [title |-> section_name, body |-> contents])
    ELSE IF name # None
    THEN RestSections(level, Unwrap(name), Unwrap(nl).rest, Unwrap(nl).rest,
                      Append(acc, [title |-> section_name, body |-> contents]))
    ELSE RestSections(level, section_name, section_contents, Unwrap(nl).rest, acc)

RestSectionsLineUntrimmed(level, section_name, section_contents, remainder, acc, nl) ==
    RestSectionsStep(level, section_name, section_contents, acc,
        SubSeq(section_contents, 1, Len(section_contents) - Len(remainder)),
        nl, LineName(nl, level))

RestSectionsLine(level, section_name, section_contents, remainder, acc, nl) ==
    RestSectionsStep(level, section_name, section_contents, acc,
        Trim(SubSeq(section_contents, 1, Len(section_contents) - Len(remainder))),
        nl, LineName(nl, level))

RestSections(level, section_name, section_contents, remainder, acc) ==
    RestSectionsLine(level, section_name, section_contents, remainder, acc,
                     next_line(remainder))

SectionsAfter(first, level) ==
    IF first = None THEN <<>>
    ELSE RestSections(level, Unwrap(first).name, Unwrap(first).remainder,
                      Unwrap(first).remainder, <<>>)

sections(text, level) == SectionsAfter(FirstSection(text, level), level)

----------------------------------------------------------------------------
(* Package (main.rs 451-462).  The manifest text is represented by what the *)
(* program reads from it: dep_keys is the sequence of `dep` strings that    *)
(* lines 618-634 extract from the *dependencies sections, in document order *)

Package(name, version, changelog_path, release_notes, manifest) ==
    [name |-> name, version |-> version, changelog_path |-> changelog_path,
     release_notes |-> release_notes, manifest |-> manifest]


Manifest(dep_keys, description, license) ==
    [dep_keys |-> dep_keys, description |-> description, license |-> license]

----------------------------------------------------------------------------
(* Results: Ok(v), Err(..) and a panic *)

Ok(v) == [kind |-> "ok", value |-> v]
Err(msg, who) == [kind |-> "err", msg |-> msg, who |-> who]
Panic(msg) == [kind |-> "panic", msg |-> msg]

----------------------------------------------------------------------------
(* toml.rs: Value, Toml::get_field, Toml::sections *)

Str(v) == [type |-> "Str", v |-> v]
Bool(v) == [type |-> "Bool", v |-> v]

\* Value::as_str
as_str(value) == IF value.type = "Str" THEN Some(value.v) ELSE None

\* str::lines: the lines of a text, without their "\n".
RECURSIVE lines(_)
LinesFrom(nl) ==
    IF nl = None THEN <<>> ELSE <<Unwrap(nl).line>> \o lines(Unwrap(nl).rest)

lines(text) == LinesFrom(next_line(text))

\* str::split_ascii_whitespace: the maximal runs of non-whitespace characters.
\* FirstWord is the first of them in a text that starts with one.
FirstWord(t) ==
    SubSeq(t, 1, IF \E i \in 1..Len(t) : IsWhitespace(t[i])
                 THEN (CHOOSE i \in 1..Len(t) :
                          IsWhitespace(t[i]) /\ \A k \in 1..(i - 1) : ~IsWhitespace(t[k])) - 1
                 ELSE Len(t))

RECURSIVE split_ascii_whitespace(_)
WordsFrom(t) ==
    IF t = <<>> THEN <<>>
    ELSE <<FirstWord(t)>> \o split_ascii_whitespace(SubSeq(t, Len(FirstWord(t)) + 1, Len(t)))

split_ascii_whitespace(line) == WordsFrom(TrimStart(line))

\* char::is_alphanumeric, over the characters of the model.
IsAlphanumeric(c) ==
    c \notin {"\n", " ", "#", "-", ".", "\"", "=", "[", "]", ",", "(", ")"}

\* v.split(|v: char| !v.is_alphanumeric()).next().unwrap(): the text before the
\* first character that is not alphanumeric.
FirstAlphanumericRun(v) ==
    SubSeq(v, 1, IF \E i \in 1..Len(v) : ~IsAlphanumeric(v[i])
                 THEN (CHOOSE i \in 1..Len(v) :
                          ~IsAlphanumeric(v[i]) /\ \A k \in 1..(i - 1) : IsAlphanumeric(v[k])) - 1
                 ELSE Len(v))

\* Lines 26-38: what the match arm makes of the value word v (trimmed): a
\* returned value, a panic, or nothing (the loop goes on).
FieldValue(v) ==
    IF StartsWith(v, <<"\"">>)
    THEN (IF ~EndsWith(v, <<"\"">>)
          THEN Panic("unclosed string, or trailing comment")
          ELSE IF Len(v) < 2 THEN Panic("slice index starts at 1 but ends at 0")
          ELSE Ok(Str(SubSeq(v, 2, Len(v) - 1))))
    ELSE IF FirstAlphanumericRun(v) = <<"t", "r", "u", "e">> THEN Ok(Bool(TRUE))
    ELSE IF FirstAlphanumericRun(v) = <<"f", "a", "l", "s", "e">> THEN Ok(Bool(FALSE))
    ELSE [kind |-> "none"]

\* Lines 23-40: the match on the words of one line.
MatchWords(words, name) ==
    IF Len(words) >= 3 /\ Trim(words[1]) = name /\ words[2] = <<"=">>
    THEN FieldValue(Trim(words[3]))
    ELSE [kind |-> "none"]

\* Lines 22-45: the loop over the lines, and the error after it.
RECURSIVE GetFieldIn(_, _)
GetFieldStep(found, rest, name) ==
    IF found.kind # "none" THEN found ELSE GetFieldIn(rest, name)

GetFieldIn(ls, name) ==
    IF ls = <<>> THEN [kind |-> "err", msg |-> "can't find"]
    ELSE GetFieldStep(MatchWords(split_ascii_whitespace(Head(ls)), name), Tail(ls), name)

get_field(text, name) == GetFieldIn(lines(text), name)

\* start_of_section_or_array (lines 82-97).  HeaderName is the part after the
\* opening bracket or brackets have been removed.
HeaderName(line) ==
    IF IndexOf(line, "]") = 0 THEN None
    ELSE Some(Trim(SubSeq(line, 1, IndexOf(line, "]") - 1)))

UnbracketedOnce(line) ==
    IF ~StartsWith(line, <<"[">>) THEN None
    ELSE HeaderName(SubSeq(line, 2, Len(line)))

Unbracketed(line) ==
    IF ~StartsWith(line, <<"[">>) THEN None
    ELSE IF StartsWith(line, <<"[", "[">>) THEN HeaderName(SubSeq(line, 3, Len(line)))
    ELSE HeaderName(SubSeq(line, 2, Len(line)))

start_of_section_or_array(line) == Unbracketed(Trim(line))

\* Toml::sections (lines 48-80): the two loops of Markdown::sections, with
\* start_of_section_or_array in the place of start_of_section.
HeaderOf(nl) ==
    IF nl = None THEN None ELSE start_of_section_or_array(Unwrap(nl).line)

RECURSIVE TomlFirstSection(_)
TomlFirstSectionStep(nl, name) ==
    IF nl = None THEN None
    ELSE IF name # None
    THEN Some([name |-> Unwrap(name), remainder |-> Unwrap(nl).rest])
    ELSE TomlFirstSection(Unwrap(nl).rest)

TomlFirstSectionLine(nl) == TomlFirstSectionStep(nl, HeaderOf(nl))

TomlFirstSection(remainder) == TomlFirstSectionLine(next_line(remainder))

RECURSIVE TomlRestSections(_, _, _, _)
TomlRestSectionsStep(section_name, section_contents, acc, contents, nl, name) ==
    IF nl = None
    THEN Append(acc, [name |-> section_name, body |-> contents])
    ELSE IF name # None
    THEN TomlRestSections(Unwrap(name), Unwrap(nl).rest, Unwrap(nl).rest,
                          Append(acc, [name |-> section_name, body |-> contents]))
    ELSE TomlRestSections(section_name, section_contents, Unwrap(nl).rest, acc)

TomlRestSectionsLine(section_name, section_contents, remainder, acc, nl) ==
    TomlRestSectionsStep(section_name, section_contents, acc,
        Trim(SubSeq(section_contents, 1, Len(section_contents) - Len(remainder))),
        nl, HeaderOf(nl))

TomlRestSections(section_name, section_contents, remainder, acc) ==
    TomlRestSectionsLine(section_name, section_contents, remainder, acc,
                         next_line(remainder))

TomlSectionsAfter(first) ==
    IF first = None THEN <<>>
    ELSE TomlRestSections(Unwrap(first).name, Unwrap(first).remainder,
                          Unwrap(first).remainder, <<>>)

Toml_sections(text) == TomlSectionsAfter(TomlFirstSection(text))

----------------------------------------------------------------------------
(* sort_packages (main.rs 606-671) *)


\* pkgs.sort_by_key(|pkg| pkg.name.clone()): a stable sort, by insertion.
RECURSIVE InsertByName(_, _)
InsertByName(s, p) ==
    IF s = <<>> THEN <<p>>
    ELSE IF StrLess(p.name, Head(s).name) THEN <<p>> \o s
    ELSE <<Head(s)>> \o InsertByName(Tail(s), p)

RECURSIVE SortByNameFrom(_, _)
SortByNameFrom(done, rest) ==
    IF rest = <<>> THEN done
    ELSE SortByNameFrom(InsertByName(done, Head(rest)), Tail(rest))

SortByNameUnsorted(pkgs) == pkgs

SortByName(pkgs) == SortByNameFrom(<<>>, pkgs)

\* pkgs.iter().enumerate().find(|(_, pkg)| pkg.name == dep): the first position
\* whose package has that name, 0 when there is none.
FindPos(pkgs, dep) ==
    IF \E j \in 1..Len(pkgs) : pkgs[j].name = dep
    THEN CHOOSE j \in 1..Len(pkgs) :
            /\ pkgs[j].name = dep
            /\ \A k \in 1..(j - 1) : pkgs[k].name # dep
    ELSE 0

\* One pass over the dependency keys of package i (lines 625-642): depends_on[i].
RECURSIVE CollectDeps(_, _, _)
CollectDeps(pkgs, keys, acc) ==
    IF keys = <<>> THEN acc
    ELSE LET pos == FindPos(pkgs, Head(keys))
         IN  IF pos # 0 /\ ~SeqContains(acc, pos)
             THEN CollectDeps(pkgs, Tail(keys), Append(acc, pos))
             ELSE CollectDeps(pkgs, Tail(keys), acc)

DependsOn(pkgs) ==
    [i \in 1..Len(pkgs) |-> CollectDeps(pkgs, pkgs[i].manifest.dep_keys, <<>>)]

\* dependants[pos] is incremented once for each i that pushes pos (line 639).
Dependants(pkgs, depends_on) ==
    [pos \in 1..Len(pkgs) |->
        Cardinality({i \in 1..Len(pkgs) : SeqContains(depends_on[i], pos)})]

\* filter_map over dependants (lines 646-650): the positions with no dependant,
\* ascending.
RECURSIVE EligibleFrom(_, _)
EligibleFrom(dependants, i) ==
    IF i > Len(dependants) THEN <<>>
    ELSE IF dependants[i] = 0 THEN <<i>> \o EligibleFrom(dependants, i + 1)
    ELSE EligibleFrom(dependants, i + 1)

\* The inner for loop (lines 656-661) over depends_on[i].
RECURSIVE Release(_, _, _)
Release(deps, dependants, eligible) ==
    IF deps = <<>> THEN [dependants |-> dependants, eligible |-> eligible]
    ELSE LET dep == Head(deps)
             d2 == [dependants EXCEPT ![dep] = @ - 1]
         IN  Release(Tail(deps), d2,
                     IF d2[dep] = 0 THEN Append(eligible, dep) ELSE eligible)

\* while let Some(i) = eligible_nodes.pop() (lines 654-662).
RECURSIVE Drain(_, _, _, _)
Drain(depends_on, dependants, eligible, list) ==
    IF eligible = <<>> THEN [dependants |-> dependants, list |-> list]
    ELSE LET i == eligible[Len(eligible)]
             r == Release(depends_on[i], dependants,
                          SubSeq(eligible, 1, Len(eligible) - 1))
         IN  Drain(depends_on, r.dependants, r.eligible, Append(list, i))

\* list.reverse() (line 665).
OrderNotReversed(list) == list

Order(list) == Reverse(list)

\* The two assertions before the return (lines 667-668).
FinalAssertsOff(dependants, list, pkgs) == TRUE

FinalAsserts(dependants, list, pkgs) ==
    /\ \A i \in 1..Len(dependants) : dependants[i] = 0
    /\ Len(list) = Len(pkgs)

\* The value of sort_packages(pkgs): the returned Vec<Package> (with the local
\* dependants as they are at the return), or the panic of a failed assertion.
sort_packages(input) ==
    IF input = <<>> THEN [kind |-> "ok", list |-> <<>>, dependants |-> <<>>]
    ELSE
      LET pkgs == SortByName(input)
          depends_on == DependsOn(pkgs)
          dependants == Dependants(pkgs, depends_on)
          eligible_nodes == EligibleFrom(dependants, 1)
      IN  IF eligible_nodes = <<>> THEN Panic("dependency cycle detected")
          ELSE
            LET d == Drain(depends_on, dependants, eligible_nodes, <<>>)
                list == Order([k \in 1..Len(d.list) |-> pkgs[d.list[k]]])
            IN  IF ~FinalAsserts(d.dependants, list, pkgs)
                THEN Panic("assertion failed")
                ELSE [kind |-> "ok", list |-> list, dependants |-> d.dependants]

----------------------------------------------------------------------------
(* Workspace::get and Workspace::find_packages (main.rs 483-598).  The file  *)
(* system is a sequence of directories, the first the project directory:    *)
(* each has its parent (0 for the first), whether its path ends with        *)
(* sludge-cicd-test-projects, the text of its Cargo.toml (None: no such     *)
(* file) and whether it holds a CHANGELOG.md.                               *)

Dir(parent, is_test_dir, manifest, changelog) ==
    [parent |-> parent, is_test_dir |-> is_test_dir, manifest |-> manifest,
     changelog |-> changelog]

\* dir.join("CHANGELOG.md")
ChangelogIn(d) == <<d, "CHANGELOG.md">>

FieldName == <<"n", "a", "m", "e">>
FieldVersion == <<"v", "e", "r", "s", "i", "o", "n">>
FieldVersionWorkspace == <<"v", "e", "r", "s", "i", "o", "n", ".", "w", "o", "r", "k", "s", "p", "a", "c", "e">>
FieldPackageVersion == <<"p", "a", "c", "k", "a", "g", "e", ".", "v", "e", "r", "s", "i", "o", "n">>
FieldPublish == <<"p", "u", "b", "l", "i", "s", "h">>
FieldDescription == <<"d", "e", "s", "c", "r", "i", "p", "t", "i", "o", "n">>
FieldLicense == <<"l", "i", "c", "e", "n", "s", "e">>
DotWorkspace == <<".", "w", "o", "r", "k", "s", "p", "a", "c", "e">>
PackageHeader == <<"[", "p", "a", "c", "k", "a", "g", "e", "]">>
WorkspacePackage == <<"w", "o", "r", "k", "s", "p", "a", "c", "e", ".", "p", "a", "c", "k", "a", "g", "e">>
Dependencies == <<"d", "e", "p", "e", "n", "d", "e", "n", "c", "i", "e", "s">>

\* Toml::section(name): the body of the first section of that name.
RECURSIVE SectionNamed(_, _)
SectionNamed(secs, name) ==
    IF secs = <<>> THEN None
    ELSE IF Head(secs).name = name THEN Some(Head(secs).body)
    ELSE SectionNamed(Tail(secs), name)

Toml_section(text, name) == SectionNamed(Toml_sections(text), name)

\* Lines 494-498: toml.get_field("version").ok().and_then(|fld| fld.as_str()).
InheritedFrom(fld) ==
    IF fld.kind = "panic" THEN fld
    ELSE IF fld.kind = "ok" THEN Ok(as_str(fld.value))
    ELSE Ok(None)

SectionVersion(section) ==
    IF section = None THEN Ok(None)
    ELSE InheritedFrom(get_field(Unwrap(section), FieldVersion))

\* Lines 485-499: the match on get_field("package.version").
RootVersion(manifest, fld) ==
    IF fld.kind = "panic" THEN fld
    ELSE IF fld.kind = "ok"
    THEN (IF as_str(fld.value) = None
          THEN [kind |-> "err", msg |-> "version is not a string"]
          ELSE Ok(as_str(fld.value)))
    ELSE SectionVersion(Toml_section(manifest, WorkspacePackage))

\* Lines 484-502: no Cargo.toml in the project directory is no version.
WorkspaceVersion(manifest) ==
    IF manifest = None THEN Ok(None)
    ELSE RootVersion(Unwrap(manifest), get_field(Unwrap(manifest), FieldPackageVersion))

\* Lines 504-515.
WorkspaceOf(fs, version) ==
    IF version.kind # "ok" THEN version
    ELSE Ok([version |-> version.value,
             changelog |-> IF fs[1].changelog THEN Some(ChangelogIn(1)) ELSE None])

Workspace_get(fs) == WorkspaceOf(fs, WorkspaceVersion(fs[1].manifest))

\* Lines 618-634 of sort_packages, which reads them off the manifest text: the
\* `dep` of each line with a '=' in the sections whose name ends with
\* "dependencies".
BeforeDot(s) == IF IndexOf(s, ".") = 0 THEN s ELSE SubSeq(s, 1, IndexOf(s, ".") - 1)

RECURSIVE DepsOfLines(_)
DepsOfLines(ls) ==
    IF ls = <<>> THEN <<>>
    ELSE IF IndexOf(Head(ls), "=") = 0 THEN DepsOfLines(Tail(ls))
    ELSE <<Trim(BeforeDot(SubSeq(Head(ls), 1, IndexOf(Head(ls), "=") - 1)))>>
            \o DepsOfLines(Tail(ls))

RECURSIVE DepsOfSections(_)
DepsOfSections(secs) ==
    IF secs = <<>> THEN <<>>
    ELSE IF ~EndsWith(Head(secs).name, Dependencies) THEN DepsOfSections(Tail(secs))
    ELSE DepsOfLines(lines(Head(secs).body)) \o DepsOfSections(Tail(secs))

dep_keys(manifest) == DepsOfSections(Toml_sections(manifest))

\* Lines 205-206 and 211 of step_manifest_check: the field or its .workspace form.
HasField(manifest, name) ==
    \/ get_field(manifest, name).kind = "ok"
    \/ get_field(manifest, name \o DotWorkspace).kind = "ok"

\* Package::manifest, as the program reads it.
ManifestOf(manifest) ==
    Manifest(dep_keys(manifest), HasField(manifest, FieldDescription),
             HasField(manifest, FieldLicense))

\* Lines 531-534: the filter, with the results of get_field("publish") and
\* get_field("version"); a panic of get_field ends the scan.
Deferred(fld) == IF fld.kind = "panic" THEN fld ELSE Ok(fld.kind = "ok")

FilterIgnoringPublish(manifest, publish, version) ==
    IF ~Contains(manifest, PackageHeader) THEN Ok(FALSE)
    ELSE IF version.kind = "panic" THEN version
    ELSE IF version.kind = "ok" THEN Ok(TRUE)
    ELSE Deferred(get_field(manifest, FieldVersionWorkspace))

Filter(manifest, publish, version) ==
    IF ~Contains(manifest, PackageHeader) THEN Ok(FALSE)
    ELSE IF publish.kind = "panic" THEN publish
    ELSE IF publish = Ok(Bool(FALSE)) THEN Ok(FALSE)
    ELSE IF version.kind = "panic" THEN version
    ELSE IF version.kind = "ok" THEN Ok(TRUE)
    ELSE Deferred(get_field(manifest, FieldVersionWorkspace))

\* Lines 536-540.
PackageName(fld) ==
    IF fld.kind # "ok" THEN fld
    ELSE IF as_str(fld.value) = None
    THEN [kind |-> "err", msg |-> "package name is not a string"]
    ELSE Ok(Unwrap(as_str(fld.value)))

\* Lines 541-550.
PackageVersionOwnOnly(fld, ws) ==
    IF fld.kind # "ok" THEN fld
    ELSE IF as_str(fld.value) = None
    THEN [kind |-> "err", msg |-> "version is not a string"]
    ELSE Ok(Unwrap(as_str(fld.value)))

PackageVersion(fld, ws) ==
    IF fld.kind = "panic" THEN fld
    ELSE IF fld.kind = "ok"
    THEN (IF as_str(fld.value) = None
          THEN [kind |-> "err", msg |-> "version is not a string"]
          ELSE Ok(Unwrap(as_str(fld.value))))
    ELSE IF ws.version = None THEN fld
    ELSE Ok(Unwrap(ws.version))

\* Lines 552-560.
ChangelogOf(fs, d, ws) ==
    IF fs[d].changelog /\ Some(ChangelogIn(d)) # ws.changelog
    THEN Some(ChangelogIn(d))
    ELSE None

\* Lines 536-568: `?` on the name, then on the version, then out.push(..).
Pushed(acc, name, version, changelog, manifest) ==
    IF name.kind # "ok" THEN name
    ELSE IF version.kind # "ok" THEN version
    ELSE Ok(Append(acc, Package(name.value, version.value, changelog, None,
                                ManifestOf(manifest))))

\* Lines 526-570: recurse on one directory, before it descends.
WithManifest(fs, d, ws, acc, manifest, keep) ==
    IF keep.kind # "ok" THEN keep
    ELSE IF ~keep.value THEN Ok(acc)
    ELSE Pushed(acc, PackageName(get_field(manifest, FieldName)),
                PackageVersion(get_field(manifest, FieldVersion), ws),
                ChangelogOf(fs, d, ws), manifest)

Visit(fs, d, ws, acc) ==
    IF fs[d].manifest = None THEN Ok(acc)
    ELSE WithManifest(fs, d, ws, acc, Unwrap(fs[d].manifest),
             Filter(Unwrap(fs[d].manifest),
                    get_field(Unwrap(fs[d].manifest), FieldPublish),
                    get_field(Unwrap(fs[d].manifest), FieldVersion)))

\* Lines 572-585: fs::read_dir(&dir) yields the directories in dir in an order
\* of its own (here: as they stand in order); none below a test directory.
Entries_of(fs, d, order) ==
    IF fs[d].is_test_dir THEN <<>>
    ELSE SelectSeq(order, LAMBDA e : fs[e].parent = d)

\* recurse (lines 523-587), with the directories still to enter as a stack.
RECURSIVE Recurse(_, _, _, _, _)
RecurseInto(fs, order, ws, stack, visited) ==
    IF visited.kind # "ok" THEN visited
    ELSE Recurse(fs, order, ws, Entries_of(fs, Head(stack), order) \o Tail(stack),
                 visited.value)

Recurse(fs, order, ws, stack, acc) ==
    IF stack = <<>> THEN Ok(acc)
    ELSE RecurseInto(fs, order, ws, stack, Visit(fs, Head(stack), ws, acc))

\* Lines 595-597.
SortedList(s) == IF s.kind = "panic" THEN s ELSE Ok(s.list)

FoundPackages(collected) ==
    IF collected.kind # "ok" THEN collected
    ELSE SortedList(sort_packages(collected.value))

\* Workspace::find_packages (lines 522-598).
find_packages(fs, ws, order) ==
    IF fs[1].manifest = None
    THEN [kind |-> "err",
          msg |-> "Cargo.toml does not exist in the project directory"]
    ELSE FoundPackages(Recurse(fs, order, ws, <<1>>, <<>>))

----------------------------------------------------------------------------
(* extract_release_notes (main.rs 364-423) *)

\* Lines 378-388: the sections whose title contains the version, at the first of
\* the levels level..3 that has any.
RECURSIVE EntriesMatchingVersion(_, _, _)
FoundAndDeeper(changelog, version, level, found) ==
    found \o EntriesMatchingVersion(changelog, version, level + 1)

FoundOrDeeper(changelog, version, level, found) ==
    IF found # <<>> THEN found
    ELSE EntriesMatchingVersion(changelog, version, level + 1)

EntriesMatchingVersion(changelog, version, level) ==
    IF level > 3 THEN <<>>
    ELSE FoundOrDeeper(changelog, version, level,
             SelectSeq(sections(changelog, level),
                       LAMBDA e : Contains(e.title, version)))

\* Lines 397-408: the loop over several matching entries.  entry is the
\* entry_containing_name found so far.
RECURSIVE EntryContainingName(_, _, _)
EntryContainingName(multiple, name, entry) ==
    IF multiple = <<>>
    THEN (IF entry = None THEN [kind |-> "err", msg |-> "is missing an entry"]
          ELSE [kind |-> "ok", contents |-> Unwrap(entry)])
    ELSE IF Contains(ToAsciiLowercase(Head(multiple).title), name)
         THEN (IF entry # None
               THEN [kind |-> "err", msg |-> "contains multiple entries"]
               ELSE EntryContainingName(Tail(multiple), name, Some(Head(multiple).body)))
         ELSE EntryContainingName(Tail(multiple), name, entry)

\* Lines 390-417: the entry of one package among the entries that match its
\* version.
EntryAmongOrNone(package, entries_matching_version) ==
    IF entries_matching_version = <<>>
    THEN [kind |-> "ok", contents |-> <<>>]
    ELSE IF Len(entries_matching_version) = 1
    THEN [kind |-> "ok", contents |-> entries_matching_version[1].body]
    ELSE EntryContainingName(entries_matching_version, package.name, None)

EntryAmong(package, entries_matching_version) ==
    IF entries_matching_version = <<>>
    THEN [kind |-> "err", msg |-> "does not contain an entry"]
    ELSE IF Len(entries_matching_version) = 1
    THEN [kind |-> "ok", contents |-> entries_matching_version[1].body]
    ELSE EntryContainingName(entries_matching_version, package.name, None)

EntryOf(package, changelog) ==
    EntryAmong(package, EntriesMatchingVersion(changelog, package.version, 1))

\* Lines 366-372: the change document that applies to a package.
ChangelogPathOf(package, ws) ==
    IF package.changelog_path # None THEN package.changelog_path ELSE ws.changelog

\* The for loop over the packages from position i on.  An error ends the loop
\* with the packages as they are at that moment.  ExtractAt is the iteration for
\* package i given its changelog_path, and NoteEntry its end given the entry.
RECURSIVE ExtractFrom(_, _, _, _)
NoteEntryOrSkip(pkgs, ws, fs, i, entry) ==
    IF entry.kind = "err"
    THEN ExtractFrom(pkgs, ws, fs, i + 1)
    ELSE ExtractFrom([pkgs EXCEPT ![i].release_notes = Some(entry.contents)],
                     ws, fs, i + 1)

NoteEntry(pkgs, ws, fs, i, entry) ==
    IF entry.kind = "err"
    THEN [kind |-> "err", msg |-> entry.msg, who |-> i, packages |-> pkgs]
    ELSE ExtractFrom([pkgs EXCEPT ![i].release_notes = Some(entry.contents)],
                     ws, fs, i + 1)

ExtractAt(pkgs, ws, fs, i, changelog_path) ==
    IF changelog_path = None THEN ExtractFrom(pkgs, ws, fs, i + 1)
    ELSE NoteEntry(pkgs, ws, fs, i, EntryOf(pkgs[i], fs[Unwrap(changelog_path)]))

ExtractFrom(pkgs, ws, fs, i) ==
    IF i > Len(pkgs) THEN [kind |-> "ok", packages |-> pkgs]
    ELSE ExtractAt(pkgs, ws, fs, i, ChangelogPathOf(pkgs[i], ws))

extract_release_notes(pkgs, ws, fs) == ExtractFrom(pkgs, ws, fs, 1)

----------------------------------------------------------------------------
(* Pipeline::step_publish (main.rs 219-361) *)

\* An external command: shell(..), shell_with_stdin(..) or shell_output(..).
Cmd(kind, arg, stdin) == [kind |-> kind, arg |-> arg, stdin |-> stdin]

\* format!("v{version}") and format!("{name}-v{version}")
CollectiveTag(version) == <<"v">> \o version
PackageTag(name, version) == name \o <<"-", "v">> \o version

\* Lines 235-245.
SameVersion(pkgs) == \A i \in 1..Len(pkgs) : pkgs[i].version = pkgs[1].version

HasPackageSpecificChangelog(pkgs) ==
    \E i \in 1..Len(pkgs) : pkgs[i].changelog_path # None

SeparateTagsNoSuffix(pkgs, existing) ==
    \/ HasPackageSpecificChangelog(pkgs)
    \/ ~SameVersion(pkgs)

SeparateTags(pkgs, existing) ==
    \/ HasPackageSpecificChangelog(pkgs)
    \/ ~SameVersion(pkgs)
    \/ \E tag \in existing : EndsWith(tag, pkgs[1].version)

NeedsPublishingCollectiveOnly(p, existing) ==
    CollectiveTag(p.version) \notin existing

NeedsPublishingOwnTagOnly(p, existing) ==
    PackageTag(p.name, p.version) \notin existing

\* Lines 247-254.
NeedsPublishing(p, existing) ==
    /\ CollectiveTag(p.version) \notin existing
    /\ PackageTag(p.name, p.version) \notin existing

ToPublishAll(pkgs, existing) == pkgs

ToPublish(pkgs, existing) ==
    SelectSeq(pkgs, LAMBDA p : NeedsPublishing(p, existing))

\* Lines 277-288.
PublishCmds(batch) ==
    [i \in 1..Len(batch) |-> Cmd("cargo publish", batch[i].name, <<>>)]

TagCmdsFirstOnly(batch, separate) ==
    IF separate
    THEN <<Cmd("git tag", PackageTag(batch[1].name, batch[1].version), <<>>)>>
    ELSE <<Cmd("git tag", CollectiveTag(batch[1].version), <<>>)>>

TagCmdsPerPackage(batch, separate) ==
    [i \in 1..Len(batch) |->
        Cmd("git tag", PackageTag(batch[i].name, batch[i].version), <<>>)]

\* Lines 290-300.
TagCmds(batch, separate) ==
    IF separate
    THEN [i \in 1..Len(batch) |->
            Cmd("git tag", PackageTag(batch[i].name, batch[i].version), <<>>)]
    ELSE <<Cmd("git tag", CollectiveTag(batch[1].version), <<>>)>>

EntriesWithNotes(batch, prev_notes) ==
    SelectSeq(batch, LAMBDA package : package.release_notes # None)

\* Lines 322-332: the packages whose notes enter the merged release notes; notes
\* equal to the previously kept ones are skipped.
RECURSIVE Entries(_, _)
Entries(batch, prev_notes) ==
    IF batch = <<>> THEN <<>>
    ELSE LET package == Head(batch)
         IN  IF package.release_notes = None
             THEN Entries(Tail(batch), prev_notes)
             ELSE IF package.release_notes = prev_notes
             THEN Entries(Tail(batch), prev_notes)
             ELSE <<package>> \o Entries(Tail(batch), package.release_notes)

\* Lines 334-347: writeln! appends its text and a newline.
RECURSIVE MergedNotes(_, _, _)
MergedNotes(entries, n, relnotes) ==
    IF entries = <<>> THEN relnotes
    ELSE LET package == Head(entries)
             gap == IF relnotes # <<>> THEN <<"\n">> ELSE <<>>
             heading == IF n > 1
                        THEN <<"#", " ">> \o package.name \o <<" ">> \o package.version
                                 \o <<"\n">> \o <<"\n">>
                        ELSE <<>>
         IN  MergedNotes(Tail(entries), n,
                 relnotes \o gap \o heading \o Unwrap(package.release_notes) \o <<"\n">>)

SeparateReleasesForAll(batch) ==
    [i \in 1..Len(batch) |->
        Cmd("gh release create", PackageTag(batch[i].name, batch[i].version),
            IF batch[i].release_notes # None THEN Unwrap(batch[i].release_notes)
            ELSE <<>>)]

SeparateReleasesMerged(batch) ==
    LET entries == Entries(batch, None)
        relnotes == MergedNotes(entries, Len(entries), <<>>)
    IN  [i \in 1..Len(entries) |->
            Cmd("gh release create", PackageTag(entries[i].name, entries[i].version),
                relnotes)]

\* Lines 304-358.
RECURSIVE SeparateReleases(_)
SeparateReleases(batch) ==
    IF batch = <<>> THEN <<>>
    ELSE LET package == Head(batch)
             tag == PackageTag(package.name, package.version)
         IN  (IF package.release_notes # None
              THEN <<Cmd("gh release create", tag, Unwrap(package.release_notes))>>
              ELSE <<>>) \o SeparateReleases(Tail(batch))

ReleaseCmds(batch, separate, github_token) ==
    IF separate THEN SeparateReleases(batch)
    ELSE IF \E i \in 1..Len(batch) : batch[i].release_notes # None
    THEN LET entries == Entries(batch, None)
             relnotes == MergedNotes(entries, Len(entries), <<>>)
         IN  IF github_token # None
             THEN <<Cmd("gh release create", CollectiveTag(batch[1].version),
                        relnotes)>>
             ELSE <<>>
    ELSE <<>>

PublishPlanTagsFirst(batch, separate, github_token) ==
    TagCmds(batch, separate)
        \o PublishCmds(batch)
        \o <<Cmd("git push --tags", <<>>, <<>>)>>
        \o ReleaseCmds(batch, separate, github_token)

\* Lines 277-358: the commands of a publishing run, in the order the code issues
\* them; each is issued only when all before it succeeded.
PublishPlan(batch, separate, github_token) ==
    PublishCmds(batch)
        \o TagCmds(batch, separate)
        \o <<Cmd("git push --tags", <<>>, <<>>)>>
        \o ReleaseCmds(batch, separate, github_token)

SkippedWithoutToken(crates_io_token, branch) ==
    crates_io_token = None

\* Lines 268-275: no token, or not on `main`: the autopublish step is skipped.
Skipped(crates_io_token, branch) ==
    crates_io_token = None \/ branch # <<"m", "a", "i", "n">>

----------------------------------------------------------------------------
(* Specification SpecSort: sort_packages applied to the packages a directory *)
(* walk collected.  Package names are unique (cargo rejects a workspace with *)
(* two packages of one name); the walk's order is arbitrary.                 *)

NameChars == <<"a", "b", "c", "d", "e">>
PkgNames == {<<NameChars[i]>> : i \in 1..MaxPkgs}
NoVersion == <<"1">>

\* The dependency keys of all manifests as (package, key) pairs, package by package.
KeyLists(n) ==
    {s \in SeqsUpTo((1..n) \X PkgNames, MaxKeys) :
        \A k \in 1..(Len(s) - 1) : s[k][1] <= s[k + 1][1]}

RECURSIVE KeysOf(_, _)
KeysOf(s, i) ==
    IF s = <<>> THEN <<>>
    ELSE IF Head(s)[1] = i THEN <<Head(s)[2]>> \o KeysOf(Tail(s), i)
    ELSE KeysOf(Tail(s), i)

NoResult == [kind |-> "none"]
NoParams == [crates_io_token |-> None, github_token |-> None, commit |-> <<>>,
             check_only |-> FALSE, skip_docs |-> FALSE]

Idle ==
    /\ workspace = [version |-> None, changelog |-> None]
    /\ files = <<>>
    /\ packages = <<>>
    /\ params = NoParams
    /\ current_branch = None
    /\ tags = None
    /\ to_publish = None
    /\ separate_tags = None
    /\ cmds = <<>>
    /\ result = NoResult
    /\ self0 = <<>>
    /\ ret = NoResult

InitSort ==
    /\ pc = "find_packages"
    /\ \E n \in 0..MaxPkgs :
       \E names \in {f \in [1..n -> PkgNames] : \A i, j \in 1..n : i # j => f[i] # f[j]} :
       \E keys \in KeyLists(n) :
          out = [i \in 1..n |->
                    Package(names[i], NoVersion, None, None,
                            Manifest(KeysOf(keys, i), TRUE, TRUE))]
    /\ sorted = NoResult
    /\ Idle

\* let pkgs = sort_packages(&mut out) (main.rs 595)
SortPackages ==
    /\ pc = "find_packages"
    /\ sorted' = sort_packages(out)
    /\ pc' = IF sorted'.kind = "ok" THEN "sorted" ELSE "panicked"
    /\ UNCHANGED <<out, workspace, files, packages, params, current_branch, tags,
                   to_publish, separate_tags, cmds, result>>
    /\ UNCHANGED <<self0, ret>>

NextSort == SortPackages

SpecSort == InitSort /\ [][NextSort]_vars

----------------------------------------------------------------------------
(* Properties of sort_packages (SpecSort) *)

\* The intra-workspace dependency edges of the discovered units, read off the
\* manifests: p depends on q when q's name is a dependency key of p.
UnitEdges ==
    {<<i, j>> \in (1..Len(out)) \X (1..Len(out)) :
        SeqContains(out[i].manifest.dep_keys, out[j].name)}

RECURSIVE PathWithin(_, _, _, _)
PathWithin(E, i, j, k) ==
    \/ <<i, j>> \in E
    \/ /\ k > 1
       /\ \E m \in 1..Len(out) : <<i, m>> \in E /\ PathWithin(E, m, j, k - 1)

HasCycle == \E i \in 1..Len(out) : PathWithin(UnitEdges, i, i, Len(out))

\* The position of the unit named n in the returned order (0: absent).
PosInOrder(n) == FindPos(sorted.list, n)

Returned == pc = "sorted"
Finished == pc \in {"sorted", "panicked"}

\* C1: for discovered units with unique names whose dependency edges are acyclic,
\* sort_packages returns an order in which every unit stands at a strictly later
\* position than every unit it depends on.
C1_DepsFirst ==
    (Finished /\ ~HasCycle) =>
        /\ sorted.kind = "ok"
        /\ \A e \in UnitEdges :
              /\ PosInOrder(out[e[2]].name) > 0
              /\ PosInOrder(out[e[2]].name) < PosInOrder(out[e[1]].name)

\* C1 witness: an order was returned for an acyclic graph of three units with two
\* edges, one of them against the order of names.
C1_Witness ==
    /\ Returned /\ ~HasCycle
    /\ Len(out) = 3
    /\ Cardinality(UnitEdges) >= 2
    /\ \E e \in UnitEdges : StrLess(out[e[1]].name, out[e[2]].name)

\* C2: when the dependency edges contain a cycle, sort_packages returns no
\* order at all: it panics.
C2_CycleAborts ==
    (Finished /\ HasCycle) => (sorted.kind = "panic" /\ pc = "panicked")

\* C2 witness: a cycle beside a unit that is ready at the start (no unit depends
\* on it), so that the loop runs and places units before the run is aborted.
C2_Witness ==
    /\ pc = "panicked" /\ HasCycle
    /\ \E i \in 1..Len(out) : \A e \in UnitEdges : e[2] # i
    /\ sorted.msg = "assertion failed"

\* C3: whenever sort_packages returns, the order is a permutation of its input
\* (every unit exactly once) and every dependant counter is zero.
C3_Permutation ==
    Returned =>
        /\ Len(sorted.list) = Len(out)
        /\ \A i \in 1..Len(out) :
              Cardinality({k \in 1..Len(sorted.list) : sorted.list[k] = out[i]}) = 1
        /\ \A i \in 1..Len(sorted.dependants) : sorted.dependants[i] = 0

\* C3 witness: three units with a dependency among them were ordered, and the
\* order differs from the input's.
C3_Witness ==
    /\ Returned
    /\ Len(out) = 3
    /\ UnitEdges # {}
    /\ sorted.list # out

----------------------------------------------------------------------------
(* The order of the list find_packages returns (SpecSort) *)

NameAscending(list) ==
    \A k \in 1..(Len(list) - 1) : ~StrLess(list[k + 1].name, list[k].name)

\* C19: the unit list find_packages returns is sorted by unit name in
\* ascending order, for every workspace.
C19_SortedByName == Returned => NameAscending(sorted.list)

\* C19, for the workspaces in which no unit names a unit of the workspace among
\* its dependencies: the list returned is sorted by name in ascending order.
\* (With a dependency, the dependency stands first whatever its name is.)
C19_SortedByNameWithoutEdges ==
    (Returned /\ UnitEdges = {}) => NameAscending(sorted.list)

\* Three units without a dependency among them, collected in an order that is
\* not the order of their names, were returned.
C19_Witness ==
    /\ Returned
    /\ Len(out) = 3
    /\ UnitEdges = {}
    /\ ~NameAscending(out)
    /\ NameAscending(sorted.list)
----------------------------------------------------------------------------
(* The publish step as an action.  An external command may fail (shell and  *)
(* shell_output return Err on a non-zero exit status); `?` then ends the    *)
(* step with that error and nothing after the failed command is executed.   *)

Main == <<"m", "a", "i", "n">>
Branches == {Main, <<"d", "e", "v">>}
Versions == {<<"1">>, <<"1", "1">>}
UnitNames == {<<NameChars[i]>> : i \in 1..MaxUnits}

\* The tags a repository of these units may hold: collective and per-package
\* tags of the versions, for the names of the model.
TagCandidates ==
    {CollectiveTag(v) : v \in Versions}
        \cup {PackageTag(n, v) : n \in UnitNames, v \in Versions}
TagSets == {T \in SUBSET TagCandidates : Cardinality(T) <= MaxTags}

ResultOk == [kind |-> "ok"]
ResultErr(msg) == [kind |-> "err", msg |-> msg]

\* Lines 227-358 once both outputs are read.
PublishWith(branch, existing) ==
    LET read == cmds \o <<Cmd("git branch --show-current", <<>>, <<>>),
                          Cmd("git tag --list", <<>>, <<>>)>>
        batch == ToPublish(packages, existing)
        separate == SeparateTags(packages, existing)
        plan == PublishPlan(batch, separate, params.github_token)
    IN  /\ current_branch' = Some(branch)
        /\ tags' = Some(existing)
        /\ IF packages = <<>>
           THEN /\ pc' = "failed"
                /\ result' = ResultErr("no publishable packages found")
                /\ cmds' = read
                /\ UNCHANGED <<to_publish, separate_tags>>
           ELSE /\ to_publish' = Some(batch)
                /\ separate_tags' = Some(separate)
                /\ IF batch = <<>> \/ Skipped(params.crates_io_token, branch)
                   THEN /\ pc' = "done"
                        /\ result' = ResultOk
                        /\ cmds' = read
                   ELSE \/ /\ pc' = "done"
                           /\ result' = ResultOk
                           /\ cmds' = read \o plan
                        \/ \E k \in 1..Len(plan) :
                             /\ pc' = "failed"
                             /\ result' = ResultErr("$status")
                             /\ cmds' = read \o SubSeq(plan, 1, k)

StepPublish ==
    /\ pc = "publish"
    /\ \/ /\ pc' = "failed"
          /\ result' = ResultErr("$status")
          /\ cmds' = Append(cmds, Cmd("git branch --show-current", <<>>, <<>>))
          /\ UNCHANGED <<current_branch, tags, to_publish, separate_tags>>
       \/ \E branch \in Branches :
            /\ pc' = "failed"
            /\ result' = ResultErr("$status")
            /\ current_branch' = Some(branch)
            /\ cmds' = cmds \o <<Cmd("git branch --show-current", <<>>, <<>>),
                                 Cmd("git tag --list", <<>>, <<>>)>>
            /\ UNCHANGED <<tags, to_publish, separate_tags>>
       \/ \E branch \in Branches, existing \in TagSets : PublishWith(branch, existing)
    /\ UNCHANGED <<out, sorted, workspace, files, packages, params>>
    /\ UNCHANGED <<self0, ret>>

----------------------------------------------------------------------------
(* Specification SpecPublish: step_publish, entered with the packages as    *)
(* Pipeline::new leaves them (found by the scan, release notes extracted    *)
(* from the change documents on disk).                                      *)

WsChangelog == <<"CHANGELOG.md">>
PkgChangelog(name) == <<name, "CHANGELOG.md">>

\* Change documents.  DocShared has one entry that matches every version of the
\* model, DocNamed one entry per package name for version 1.
DocShared == <<"#", " ", "1", "1", "\n", "x">>
DocNamed == <<"#", " ", "a", " ", "1", "\n", "x", "\n",
              "#", " ", "b", " ", "1", "\n", "y">>
DocOwn == <<"#", " ", "1", "1", "\n", "y">>
WsDocs == {DocShared, DocNamed}
PkgDocs == {DocShared, DocOwn}

Tokens == {None, Some("token")}

\* The packages find_packages returns for n units: the names in publish order,
\* a version each, and a change document of their own or none.
Found(n, versions, own) ==
    [i \in 1..n |->
        Package(<<NameChars[i]>>, versions[i],
                IF own[i] = None THEN None ELSE Some(PkgChangelog(<<NameChars[i]>>)),
                None, Manifest(<<>>, TRUE, TRUE))]

Files(n, own, ws) ==
    [path \in {PkgChangelog(<<NameChars[i]>>) : i \in {j \in 1..n : own[j] # None}}
                \cup (IF ws = None THEN {} ELSE {WsChangelog}) |->
        IF path = WsChangelog THEN Unwrap(ws)
        ELSE Unwrap(own[CHOOSE i \in 1..n : PkgChangelog(<<NameChars[i]>>) = path])]

InitPublish ==
    /\ pc = "publish"
    /\ out = <<>>
    /\ sorted = NoResult
    /\ \E n \in 0..MaxUnits :
       \E versions \in [1..n -> Versions] :
       \E own \in [1..n -> {None} \cup {Some(d) : d \in PkgDocs}] :
       \E ws \in {None} \cup {Some(d) : d \in WsDocs} :
          /\ workspace = [version |-> None,
                          changelog |-> IF ws = None THEN None ELSE Some(WsChangelog)]
          /\ files = Files(n, own, ws)
          /\ LET ex == extract_release_notes(Found(n, versions, own), workspace, files)
             IN  /\ ex.kind = "ok"
                 /\ packages = ex.packages
    /\ \E crates \in Tokens, github \in Tokens :
          params = [NoParams EXCEPT !.crates_io_token = crates, !.github_token = github]
    /\ current_branch = None
    /\ tags = None
    /\ to_publish = None
    /\ separate_tags = None
    /\ cmds = <<>>
    /\ result = NoResult
    /\ self0 = <<>>
    /\ ret = NoResult

NextPublish == StepPublish

SpecPublish == InitPublish /\ [][NextPublish]_vars

----------------------------------------------------------------------------
(* Pipeline::new and the steps of Pipeline::run before step_publish          *)
(* (main.rs 97-217)                                                          *)

\* A sequence of shell(..) calls joined by `?`: all succeed and the run goes on
\* at `next`, or one fails and the step returns its error.
RunAll(plan, next) ==
    \/ /\ cmds' = cmds \o plan
       /\ pc' = next
       /\ UNCHANGED result
    \/ \E k \in 1..Len(plan) :
          /\ cmds' = cmds \o SubSeq(plan, 1, k)
          /\ pc' = "failed"
          /\ result' = ResultErr("$status")

\* Pipeline::new (lines 97-106): Workspace::get, find_packages (which ends with
\* sort_packages) and extract_release_notes.  Constructed is what the `?` makes
\* of the result of extract_release_notes, NewOutcome what becomes of the run
\* given the result s of sort_packages.
Constructed(ex) ==
    IF ex.kind = "err"
    THEN [pc |-> "failed", packages |-> <<>>,
          result |-> [kind |-> "err", msg |-> ex.msg, who |-> ex.who]]
    ELSE [pc |-> "info", packages |-> ex.packages, result |-> NoResult]

NewOutcome(s, ws, fs) ==
    IF s.kind = "panic"
    THEN [pc |-> "panicked", packages |-> <<>>, result |-> s]
    ELSE Constructed(extract_release_notes(s.list, ws, fs))

Enter(outcome) ==
    /\ pc' = outcome.pc
    /\ packages' = outcome.packages
    /\ result' = outcome.result

New ==
    /\ pc = "new"
    /\ sorted' = sort_packages(out)
    /\ Enter(NewOutcome(sorted', workspace, files))
    /\ UNCHANGED <<out, workspace, files, params, current_branch, tags, to_publish,
                   separate_tags, cmds>>
    /\ UNCHANGED <<self0, ret>>

\* step_info (lines 117-138), outside the mock tests.
StepInfo ==
    /\ pc = "info"
    /\ RunAll(<<Cmd("rustup toolchain list", <<>>, <<>>),
                Cmd("rustc -Vv", <<>>, <<>>),
                Cmd("git --version", <<>>, <<>>)>>, "test")
    /\ UNCHANGED <<out, sorted, workspace, files, packages, params, current_branch,
                   tags, to_publish, separate_tags>>
    /\ UNCHANGED <<self0, ret>>

\* step_test (lines 140-175).
TestCmds(check_only, skip_docs) ==
    (IF check_only THEN <<Cmd("cargo check --workspace", <<>>, <<>>)>>
     ELSE <<Cmd("cargo test --workspace --no-run", <<>>, <<>>)>>)
    \o (IF ~skip_docs THEN <<Cmd("cargo doc --workspace", <<>>, <<>>)>> ELSE <<>>)
    \o (IF ~check_only THEN <<Cmd("cargo test --workspace", <<>>, <<>>)>> ELSE <<>>)

StepTest ==
    /\ pc = "test"
    /\ RunAll(TestCmds(params.check_only, params.skip_docs), "gitcheck")
    /\ UNCHANGED <<out, sorted, workspace, files, packages, params, current_branch,
                   tags, to_publish, separate_tags>>
    /\ UNCHANGED <<self0, ret>>

\* step_gitcheck (lines 181-200).
StatusOutputs == {<<>>, <<" ", "M", " ", "x", "\n">>}
Commits == {<<"c", "1", "\n">>, <<"c", "2", "\n">>}

\* What the calls of shell_output have returned to step_gitcheck: the output of
\* git status and, once read, that of git rev-parse.
Outputs(values) == [kind |-> "shell_output", value |-> values]

StepGitcheck ==
    /\ pc = "gitcheck"
    /\ \/ /\ cmds' = Append(cmds, Cmd("git status --porcelain", <<>>, <<>>))
          /\ pc' = "failed"
          /\ result' = ResultErr("$status")
          /\ UNCHANGED ret
       \/ \E status \in StatusOutputs :
            /\ Trim(status) # <<>>
            /\ cmds' = Append(cmds, Cmd("git status --porcelain", <<>>, <<>>))
            /\ pc' = "failed"
            /\ result' = ResultErr("untracked/modified files present")
            /\ ret' = Outputs(<<status>>)
       \/ \E status \in StatusOutputs :
            /\ Trim(status) = <<>>
            /\ cmds' = cmds \o <<Cmd("git status --porcelain", <<>>, <<>>),
                                 Cmd("git rev-parse HEAD", <<>>, <<>>)>>
            /\ \/ /\ pc' = "failed"
                  /\ result' = ResultErr("$status")
                  /\ ret' = Outputs(<<status>>)
               \/ \E head \in Commits :
                    /\ ret' = Outputs(<<status, head>>)
                    /\ IF params.commit # Trim(head)
                       THEN /\ pc' = "failed"
                            /\ result' = ResultErr("repo is at unexpected commit")
                       ELSE /\ pc' = "manifest_check"
                            /\ UNCHANGED result
    /\ UNCHANGED <<out, sorted, workspace, files, packages, params, current_branch,
                   tags, to_publish, separate_tags>>
    /\ UNCHANGED self0

\* step_manifest_check (lines 202-217): the first package, in order, that lacks
\* a description or (having one) a license; 0 when there is none.
FirstWithoutDescription(pkgs) ==
    IF \E i \in 1..Len(pkgs) : ~pkgs[i].manifest.description
    THEN CHOOSE i \in 1..Len(pkgs) :
            /\ ~pkgs[i].manifest.description
            /\ \A k \in 1..(i - 1) : pkgs[k].manifest.description
    ELSE 0

FirstIncomplete(pkgs) ==
    IF \E i \in 1..Len(pkgs) : ~pkgs[i].manifest.description \/ ~pkgs[i].manifest.license
    THEN CHOOSE i \in 1..Len(pkgs) :
            /\ ~pkgs[i].manifest.description \/ ~pkgs[i].manifest.license
            /\ \A k \in 1..(i - 1) :
                  pkgs[k].manifest.description /\ pkgs[k].manifest.license
    ELSE 0

StepManifestCheck ==
    /\ pc = "manifest_check"
    /\ LET i == FirstIncomplete(packages)
       IN  IF i = 0 THEN pc' = "publish" /\ UNCHANGED result
           ELSE /\ pc' = "failed"
                /\ result' = [kind |-> "err",
                              msg |-> IF ~packages[i].manifest.description
                                      THEN "is missing a description field"
                                      ELSE "is missing a license field",
                              who |-> i]
    /\ UNCHANGED <<out, sorted, workspace, files, packages, params, current_branch,
                   tags, to_publish, separate_tags, cmds>>
    /\ UNCHANGED <<self0, ret>>

----------------------------------------------------------------------------
(* Specification Spec: one run of the program, Pipeline::new(params)?.run(). *)

RunVersions == {<<"1">>}

\* Change documents of a run: besides those above, DocOther has no entry for
\* version 1 and DocTwice two entries for it that name package a.
DocOther == <<"#", " ", "2", "\n", "z">>
DocTwice == <<"#", " ", "a", " ", "1", "\n", "x", "\n",
              "#", " ", "a", " ", "1", "\n", "y">>
RunWsDocs == {DocShared, DocNamed, DocOther, DocTwice}
RunPkgDocs == {DocOwn, DocOther}

\* The packages the directory walk collects, as in Found, with the manifest's
\* description and license fields present or not.
FoundWith(n, versions, own, desc, lic) ==
    [i \in 1..n |->
        [Found(n, versions, own)[i] EXCEPT !.manifest = Manifest(<<>>, desc[i], lic[i])]]

Init ==
    /\ pc = "new"
    /\ sorted = NoResult
    /\ \E n \in 0..MaxUnits :
       \E versions \in [1..n -> RunVersions] :
       \E own \in [1..n -> {None} \cup {Some(d) : d \in RunPkgDocs}] :
       \E ws \in {None} \cup {Some(d) : d \in RunWsDocs} :
       \E desc \in [1..n -> BOOLEAN], lic \in [1..n -> BOOLEAN] :
          /\ workspace = [version |-> None,
                          changelog |-> IF ws = None THEN None ELSE Some(WsChangelog)]
          /\ files = Files(n, own, ws)
          /\ out = FoundWith(n, versions, own, desc, lic)
    /\ packages = <<>>
    /\ \E crates \in Tokens, github \in Tokens, check_only \in BOOLEAN, skip_docs \in BOOLEAN :
          params = [crates_io_token |-> crates, github_token |-> github,
                    commit |-> <<"c", "1">>,
                    check_only |-> check_only, skip_docs |-> skip_docs]
    /\ current_branch = None
    /\ tags = None
    /\ to_publish = None
    /\ separate_tags = None
    /\ cmds = <<>>
    /\ result = NoResult
    /\ self0 = <<>>
    /\ ret = NoResult

Next ==
    \/ New
    \/ StepInfo
    \/ StepTest
    \/ StepGitcheck
    \/ StepManifestCheck
    \/ StepPublish

Spec == Init /\ [][Next]_vars

----------------------------------------------------------------------------
(* Specification SpecRerun: step_publish, and step_publish once more on the *)
(* same packages after a run that published: git tag --list then returns    *)
(* the tags it returned before and the tags the first run created.          *)

CreatedTags == {cmds[k].arg : k \in {i \in 1..Len(cmds) : cmds[i].kind = "git tag"}}

FirstRunPublished ==
    /\ pc = "done"
    /\ result.kind = "ok"
    /\ \E k \in 1..Len(cmds) : cmds[k].kind = "cargo publish"
    /\ Len(SelectSeq(cmds, LAMBDA c : c.kind = "git branch --show-current")) = 1

StepPublishAgain ==
    /\ FirstRunPublished
    /\ \/ /\ pc' = "failed"
          /\ result' = ResultErr("$status")
          /\ cmds' = Append(cmds, Cmd("git branch --show-current", <<>>, <<>>))
          /\ UNCHANGED <<current_branch, tags, to_publish, separate_tags>>
       \/ \E branch \in Branches :
            /\ pc' = "failed"
            /\ result' = ResultErr("$status")
            /\ current_branch' = Some(branch)
            /\ cmds' = cmds \o <<Cmd("git branch --show-current", <<>>, <<>>),
                                 Cmd("git tag --list", <<>>, <<>>)>>
            /\ UNCHANGED <<tags, to_publish, separate_tags>>
       \/ \E branch \in Branches : PublishWith(branch, Unwrap(tags) \cup CreatedTags)
    /\ UNCHANGED <<out, sorted, workspace, files, packages, params>>
    /\ UNCHANGED <<self0, ret>>

NextRerun ==
    \/ StepPublish
    \/ StepPublishAgain

SpecRerun == InitPublish /\ [][NextRerun]_vars

----------------------------------------------------------------------------
(* Specification SpecNotes: extract_release_notes applied to found packages  *)
(* and the change documents on disk.                                         *)

MaxLines == 3

\* The lines change documents are written from: headings of depth 1 to 4 and
\* text, mentioning versions 1 and 2 and the package names a (as "A") and b.
DocLines ==
    {<<"#", " ", "1">>,
     <<"#", "#", " ", "1">>,
     <<"#", "#", "#", " ", "1">>,
     <<"#", "#", "#", "#", " ", "1">>,
     <<"#", " ", "A", " ", "1">>,
     <<"#", " ", "b", " ", "1">>,
     <<"#", " ", "2">>,
     <<"1">>}

\* The lines joined by "\n".
RECURSIVE JoinLines(_)
JoinLines(ls) ==
    IF ls = <<>> THEN <<>>
    ELSE IF Len(ls) = 1 THEN ls[1]
    ELSE ls[1] \o <<"\n">> \o JoinLines(Tail(ls))

Docs == {JoinLines(ls) : ls \in SeqsUpTo(DocLines, MaxLines)}

NoteVersions == {<<"1">>, <<"2">>}

\* The name in the manifest of the first package: lower case or upper case.
FirstNames == {<<"a">>, <<"A">>}
Named(pkgs, name) == [pkgs EXCEPT ![1].name = name]

\* At most one package has a change document of its own.
OwnDocs(n) ==
    {[i \in 1..n |-> IF i = k THEN Some(DocOwn) ELSE None] : k \in 0..n}

InitNotes ==
    /\ pc = "extract_release_notes"
    /\ out = <<>>
    /\ sorted = NoResult
    /\ \E n \in 1..MaxUnits :
       \E versions \in [1..n -> NoteVersions] :
       \E own \in OwnDocs(n) :
       \E ws \in {None} \cup {Some(doc) : doc \in Docs} :
          /\ workspace = [version |-> None,
                          changelog |-> IF ws = None THEN None ELSE Some(WsChangelog)]
          /\ files = Files(n, own, ws)
          /\ \E name \in FirstNames : packages = Named(Found(n, versions, own), name)
    /\ params = NoParams
    /\ current_branch = None
    /\ tags = None
    /\ to_publish = None
    /\ separate_tags = None
    /\ cmds = <<>>
    /\ result = NoResult
    /\ self0 = <<>>
    /\ ret = NoResult

\* extract_release_notes(&mut packages, &workspace): the packages are changed in
\* place, so an error leaves the notes that earlier iterations have set.
ExtractReleaseNotes ==
    /\ pc = "extract_release_notes"
    /\ result' = extract_release_notes(packages, workspace, files)
    /\ packages' = result'.packages
    /\ pc' = IF result'.kind = "ok" THEN "extracted" ELSE "failed"
    /\ UNCHANGED <<out, sorted, workspace, files, params, current_branch, tags,
                   to_publish, separate_tags, cmds>>
    /\ UNCHANGED <<self0, ret>>

NextNotes == ExtractReleaseNotes

SpecNotes == InitNotes /\ [][NextNotes]_vars

----------------------------------------------------------------------------
(* Specification SpecMd: Markdown::sections applied to documents, and again *)
(* to the bodies it returned.                                               *)

MaxMdLines == 4

\* The lines documents are written from: headings of depth 1 to 3, one of them
\* indented and followed by a blank, text, indented text and the empty line.
MdLines ==
    {<<"#", " ", "1">>,
     <<"#", "#", " ", "1">>,
     <<"#", "#", " ", "2">>,
     <<"#", "#", "#", " ", "1">>,
     <<" ", "#", "#", "#", "2", " ">>,
     <<"x">>,
     <<" ", "y">>,
     <<>>}

MdDocs == {JoinLines(ls) : ls \in SeqsUpTo(MdLines, MaxMdLines)}

Levels == 1..3

InitMd ==
    /\ pc = "sections"
    /\ out = <<>>
    /\ sorted = NoResult
    /\ workspace = [version |-> None, changelog |-> None]
    /\ files = <<>>
    /\ packages = <<>>
    /\ params = NoParams
    /\ current_branch = None
    /\ tags = None
    /\ to_publish = None
    /\ separate_tags = None
    /\ cmds = <<>>
    /\ result = NoResult
    /\ self0 \in MdDocs
    /\ ret = NoResult

\* Markdown(text).sections(level)
Sections ==
    /\ pc = "sections"
    /\ \E level \in Levels :
          ret' = [kind |-> "sections", level |-> level, value |-> sections(self0, level)]
    /\ pc' = "sections_of_bodies"
    /\ UNCHANGED <<out, sorted, workspace, files, packages, params, current_branch,
                   tags, to_publish, separate_tags, cmds, result, self0>>

\* contents.sections(level) for the body of every section returned before.
SectionsOfBodies ==
    /\ pc = "sections_of_bodies"
    /\ \E level \in Levels :
          ret' = [kind |-> "sections_of_bodies", outer |-> ret.level, level |-> level,
                  value |-> ret.value,
                  sub |-> [k \in 1..Len(ret.value) |-> sections(ret.value[k].body, level)]]
    /\ pc' = "returned"
    /\ UNCHANGED <<out, sorted, workspace, files, packages, params, current_branch,
                   tags, to_publish, separate_tags, cmds, result, self0>>

NextMd ==
    \/ Sections
    \/ SectionsOfBodies

SpecMd == InitMd /\ [][NextMd]_vars

----------------------------------------------------------------------------
(* Specification SpecToml: Toml::get_field and Toml::sections applied to     *)
(* manifest texts.                                                           *)

MaxTomlLines == 3

\* The lines manifests are written from: string fields (closed, closed with a
\* blank inside, unclosed, followed by a comment), a boolean field, section and
\* array headers (plain, indented with a comment, dotted and quoted), text and
\* the empty line.
TomlLines ==
    {<<"k", " ", "=", " ", "\"", "s", "\"">>,
     <<"k", " ", "=", " ", "\"", "a", " ", "b", "\"">>,
     <<"k", " ", "=", " ", "\"", "s">>,
     <<"k", " ", "=", " ", "t", "r", "u", "e">>,
     <<"j", " ", "=", " ", "\"", "s", "\"", " ", "#", " ", "c">>,
     <<"[", "a", "]">>,
     <<" ", "[", "[", "a", "]", "]", " ", "#", " ", "c">>,
     <<"[", "a", ".", "\"", "b", " ", "c", "\"", ".", "d", "]">>,
     <<"x">>,
     <<>>}

TomlDocs == {JoinLines(ls) : ls \in SeqsUpTo(TomlLines, MaxTomlLines)}

FieldNames == {<<"k">>, <<"j">>}

InitToml ==
    /\ pc = "toml"
    /\ out = <<>>
    /\ sorted = NoResult
    /\ workspace = [version |-> None, changelog |-> None]
    /\ files = <<>>
    /\ packages = <<>>
    /\ params = NoParams
    /\ current_branch = None
    /\ tags = None
    /\ to_publish = None
    /\ separate_tags = None
    /\ cmds = <<>>
    /\ result = NoResult
    /\ self0 \in TomlDocs
    /\ ret = NoResult

\* Toml(text).get_field(name)
GetField ==
    /\ pc = "toml"
    /\ \E name \in FieldNames :
          ret' = [kind |-> "get_field", name |-> name, value |-> get_field(self0, name)]
    /\ pc' = "returned"
    /\ UNCHANGED <<out, sorted, workspace, files, packages, params, current_branch,
                   tags, to_publish, separate_tags, cmds, result, self0>>

\* Toml(text).sections()
TomlSections ==
    /\ pc = "toml"
    /\ ret' = [kind |-> "sections", value |-> Toml_sections(self0)]
    /\ pc' = "returned"
    /\ UNCHANGED <<out, sorted, workspace, files, packages, params, current_branch,
                   tags, to_publish, separate_tags, cmds, result, self0>>

NextToml ==
    \/ GetField
    \/ TomlSections

SpecToml == InitToml /\ [][NextToml]_vars

----------------------------------------------------------------------------
(* Specification SpecScan: Workspace::get(cwd) and then find_packages(), as  *)
(* Pipeline::new calls them, on a project directory with directories below  *)
(* it.                                                                      *)

MaxDirs == 2

\* The lines manifests are written from.
LinePackage == <<"[", "p", "a", "c", "k", "a", "g", "e", "]">>
LineWorkspace == <<"[", "w", "o", "r", "k", "s", "p", "a", "c", "e", "]">>
LineWorkspacePackage == <<"[", "w", "o", "r", "k", "s", "p", "a", "c", "e", ".", "p", "a", "c", "k", "a", "g", "e", "]">>
LineDependencies == <<"[", "d", "e", "p", "e", "n", "d", "e", "n", "c", "i", "e", "s", "]">>
LineOfName(name) == <<"n", "a", "m", "e", " ", "=", " ", "\"">> \o name \o <<"\"">>
LineVersion(version) == <<"v", "e", "r", "s", "i", "o", "n", " ", "=", " ", "\"">> \o version \o <<"\"">>
LineVersionTrue == <<"v", "e", "r", "s", "i", "o", "n", " ", "=", " ", "t", "r", "u", "e">>
LineVersionWorkspace == <<"v", "e", "r", "s", "i", "o", "n", ".", "w", "o", "r", "k", "s", "p", "a", "c", "e", " ", "=", " ", "t", "r", "u", "e">>
LinePackageVersion(version) == <<"p", "a", "c", "k", "a", "g", "e", ".", "v", "e", "r", "s", "i", "o", "n", " ", "=", " ", "\"">> \o version \o <<"\"">>
LinePackageVersionTrue == <<"p", "a", "c", "k", "a", "g", "e", ".", "v", "e", "r", "s", "i", "o", "n", " ", "=", " ", "t", "r", "u", "e">>
LinePublishFalse == <<"p", "u", "b", "l", "i", "s", "h", " ", "=", " ", "f", "a", "l", "s", "e">>
LineDep(name) == name \o <<" ", "=", " ", "\"", "1", "\"">>

OwnVersion == <<"1">>
SharedVersion == <<"5">>

\* What a manifest says of the package's version: its own, the workspace's, or
\* nothing.
VersionLines == {<<LineVersion(OwnVersion)>>, <<LineVersionWorkspace>>, <<>>}

\* The Cargo.toml of the project directory: a package named a or none, and
\* what it says of the workspace: nothing, [workspace.package] with a version,
\* [workspace] with package.version (a string, or not), or [workspace] alone.
RootPackageParts ==
    {<<>>}
        \cup {<<LinePackage, LineOfName(<<"a">>)>> \o v : v \in VersionLines \ {<<>>}}
        \cup {<<LinePackage, LineOfName(<<"a">>), LineVersion(OwnVersion),
                LineDependencies, LineDep(<<"b">>)>>}

WorkspaceParts ==
    {<<>>,
     <<LineWorkspacePackage, LineVersion(SharedVersion)>>,
     <<LineWorkspace, LinePackageVersion(SharedVersion)>>,
     <<LineWorkspace, LinePackageVersionTrue>>,
     <<LineWorkspace>>}

RootDocs == {JoinLines(p \o w) : p \in RootPackageParts, w \in WorkspaceParts}

\* The Cargo.toml of directory d below it: a package with the name of the
\* directory, a version line or none, publish = false or not; a manifest with
\* a name and a version that is no package; and a package without a name, one
\* whose version is not a string, one that depends on a.
MemberDocs(d) ==
    {JoinLines(<<LinePackage, LineOfName(<<NameChars[d]>>)>> \o v \o p) :
        v \in VersionLines, p \in {<<>>, <<LinePublishFalse>>}}
        \cup {JoinLines(<<LineWorkspace, LineOfName(<<NameChars[d]>>),
                          LineVersion(OwnVersion)>>),
              JoinLines(<<LinePackage, LineVersion(OwnVersion)>>),
              JoinLines(<<LinePackage, LineOfName(<<NameChars[d]>>), LineVersionTrue>>),
              JoinLines(<<LinePackage, LineOfName(<<NameChars[d]>>), LineVersion(OwnVersion),
                          LineDependencies, LineDep(<<"a">>)>>)}

ManifestsOf(d) ==
    {None} \cup {Some(m) : m \in IF d = 1 THEN RootDocs ELSE MemberDocs(d)}

\* The file systems: n directories, each below an earlier one; at most one of
\* them, not the last, is a test directory, and the project directory or the
\* last directory may hold a CHANGELOG.md.
Parents(n) ==
    {f \in [1..n -> 0..n] : \A d \in 1..n : f[d] < d /\ (d > 1 => f[d] > 0)}

RECURSIVE Manifests(_)
Manifests(n) ==
    IF n = 0 THEN {<<>>}
    ELSE {Append(s, m) : s \in Manifests(n - 1), m \in ManifestsOf(n)}

FileSystems(n) ==
    {[d \in 1..n |-> Dir(parent[d], d = test, manifest[d], d = changelog)] :
        parent \in Parents(n), test \in 0..(n - 1), changelog \in {0, 1, n},
        manifest \in Manifests(n)}

\* The orders in which read_dir may yield the directories.
Orders(n) ==
    {s \in [1..n -> 1..n] : s[1] = 1 /\ \A i, j \in 1..n : i # j => s[i] # s[j]}

InitScan ==
    /\ pc = "get"
    /\ out = <<>>
    /\ sorted = NoResult
    /\ workspace = [version |-> None, changelog |-> None]
    /\ \E n \in 1..MaxDirs : files \in FileSystems(n)
    /\ packages = <<>>
    /\ params = NoParams
    /\ current_branch = None
    /\ tags = None
    /\ to_publish = None
    /\ separate_tags = None
    /\ cmds = <<>>
    /\ result = NoResult
    /\ self0 = <<>>
    /\ ret = NoResult

\* let workspace = Workspace::get(params.cwd.clone())? (main.rs 101)
WorkspaceGot(got) ==
    /\ workspace' = IF got.kind = "ok" THEN got.value ELSE workspace
    /\ result' = IF got.kind = "ok" THEN result ELSE got
    /\ pc' = IF got.kind = "ok" THEN "find_packages" ELSE "failed"

WorkspaceGet ==
    /\ pc = "get"
    /\ WorkspaceGot(Workspace_get(files))
    /\ UNCHANGED <<out, sorted, files, packages, params, current_branch, tags,
                   to_publish, separate_tags, cmds, self0, ret>>

\* workspace.find_packages() (main.rs 102)
FindPackages ==
    /\ pc = "find_packages"
    /\ \E order \in Orders(Len(files)) :
          ret' = [kind |-> "find_packages",
                  value |-> find_packages(files, workspace, order)]
    /\ pc' = "returned"
    /\ UNCHANGED <<out, sorted, workspace, files, packages, params, current_branch,
                   tags, to_publish, separate_tags, cmds, result, self0>>

NextScan ==
    \/ WorkspaceGet
    \/ FindPackages

SpecScan == InitScan /\ [][NextScan]_vars

----------------------------------------------------------------------------
(* Properties of step_publish (SpecPublish) *)

CmdsOfKind(kind) == SelectSeq(cmds, LAMBDA c : c.kind = kind)
ArgsOfKind(kind) == [i \in 1..Len(CmdsOfKind(kind)) |-> CmdsOfKind(kind)[i].arg]
Range(seq) == {seq[i] : i \in 1..Len(seq)}

\* The step read the existing tags and computed to_publish.
Resolved == to_publish # None

\* A run of the step with a crates.io token on `main` in which every command
\* succeeded.
PublishingRun ==
    /\ pc = "done" /\ result.kind = "ok"
    /\ params.crates_io_token # None
    /\ current_branch = Some(Main)

\* The existing tag set holds the unit's collective or its per-unit tag.
HasCollectiveTag(p) == (<<"v">> \o p.version) \in Unwrap(tags)
HasOwnTag(p) == (p.name \o <<"-", "v">> \o p.version) \in Unwrap(tags)
AlreadyTagged(p) == HasCollectiveTag(p) \/ HasOwnTag(p)

IsSuffix(suffix, s) ==
    \E k \in 0..Len(s) : SubSeq(s, k + 1, Len(s)) = suffix

\* C4: to_publish is exactly the sub-sequence, in publish order, of the units
\* that have neither their collective nor their per-unit tag among the existing
\* tags, and no unit that has either tag is ever published.
C4_ToPublish ==
    Resolved =>
        LET tp == Unwrap(to_publish)
        IN  /\ \A i \in 1..Len(packages) :
                  (packages[i] \in Range(tp)) <=> ~AlreadyTagged(packages[i])
            /\ \A k \in 1..Len(tp) : tp[k] \in Range(packages)
            /\ \A k, l \in 1..Len(tp) :
                  k < l => \E i, j \in 1..Len(packages) :
                              i < j /\ packages[i] = tp[k] /\ packages[j] = tp[l]
            /\ \A i \in 1..Len(packages) :
                  AlreadyTagged(packages[i]) =>
                      packages[i].name \notin Range(ArgsOfKind("cargo publish"))

\* C4 witness: a publishing run of two units, one of them with a per-unit tag,
\* published the other one.
C4_Witness ==
    /\ PublishingRun
    /\ Len(packages) = 2
    /\ HasOwnTag(packages[2]) /\ ~AlreadyTagged(packages[1])
    /\ ArgsOfKind("cargo publish") = <<packages[1].name>>

\* C5 as stated, for a publishing run: per-unit tagging is chosen exactly when some unit has its own
\* change document, or the units in to_publish do not all share one version, or
\* some existing tag ends with the version of the batch (of to_publish).
C5_Original ==
    (PublishingRun /\ Unwrap(to_publish) # <<>>) =>
        LET tp == Unwrap(to_publish)
        IN  Unwrap(separate_tags) <=>
               \/ \E i \in 1..Len(packages) : packages[i].changelog_path # None
               \/ \E k, l \in 1..Len(tp) : tp[k].version # tp[l].version
               \/ \E tag \in Unwrap(tags) : IsSuffix(tp[1].version, tag)

\* C5 as amended: per-unit tagging is chosen exactly when some discovered unit
\* has its own change document, or the discovered units (all of them, including
\* those already released) do not all share one version, or some existing tag
\* ends with the version of the first discovered unit; otherwise a publishing
\* run creates the single collective tag.
C5_Amended ==
    Resolved =>
        LET separate ==
               \/ \E i \in 1..Len(packages) : packages[i].changelog_path # None
               \/ \E i, j \in 1..Len(packages) : packages[i].version # packages[j].version
               \/ \E tag \in Unwrap(tags) : IsSuffix(packages[1].version, tag)
            tp == Unwrap(to_publish)
        IN  /\ Unwrap(separate_tags) <=> separate
            /\ (PublishingRun /\ tp # <<>>) =>
                  ArgsOfKind("git tag") =
                     IF separate
                     THEN [k \in 1..Len(tp) |-> tp[k].name \o <<"-", "v">> \o tp[k].version]
                     ELSE <<(<<"v">> \o tp[1].version)>>

\* C5 witness: a publishing run that tagged per unit although no unit has its own
\* change document, the units to publish share one version and no existing tag
\* ends with it: the discovered units differ in their versions.
C5_Witness ==
    /\ PublishingRun
    /\ Unwrap(to_publish) # <<>>
    /\ Unwrap(separate_tags)
    /\ \A i \in 1..Len(packages) : packages[i].changelog_path = None
    /\ \A k \in 1..Len(Unwrap(to_publish)) :
          Unwrap(to_publish)[k].version = Unwrap(to_publish)[1].version
    /\ \A tag \in Unwrap(tags) : ~IsSuffix(Unwrap(to_publish)[1].version, tag)
    /\ ArgsOfKind("git tag") # <<>>

\* All discovered units share the version of the first, none has its own change
\* document and no existing tag ends with that version.
OneCleanVersion ==
    /\ packages # <<>>
    /\ \A i \in 1..Len(packages) :
          /\ packages[i].version = packages[1].version
          /\ packages[i].changelog_path = None
    /\ \A tag \in Unwrap(tags) : ~IsSuffix(packages[1].version, tag)

\* C6: when all units share one version V, none has its own change document and
\* no existing tag ends with V, a publishing run publishes every unit and creates
\* exactly one tag, vV, and no per-unit tag (and no run, complete or not, creates
\* any other tag).
C6_OneCollectiveTag ==
    (tags # None /\ OneCleanVersion) =>
        /\ PublishingRun =>
              /\ ArgsOfKind("cargo publish") =
                    [i \in 1..Len(packages) |-> packages[i].name]
              /\ ArgsOfKind("git tag") = <<(<<"v">> \o packages[1].version)>>
        /\ Len(ArgsOfKind("git tag")) <= 1
        /\ \A t \in Range(ArgsOfKind("git tag")) : t = <<"v">> \o packages[1].version

\* C6 witness: such a publishing run with two units.
C6_Witness ==
    /\ tags # None /\ OneCleanVersion /\ PublishingRun
    /\ Len(packages) = 2
    /\ Len(ArgsOfKind("git tag")) = 1

ActionKinds == {"cargo publish", "git tag", "git push --tags", "gh release create"}

\* C7: when every discovered unit (there is at least one) already has its
\* collective or its per-unit tag, to_publish is empty and the step returns
\* success without any cargo publish, git tag, git push or gh release command.
C7_NothingToPublish ==
    (tags # None /\ packages # <<>>
        /\ \A i \in 1..Len(packages) : AlreadyTagged(packages[i])) =>
        /\ to_publish = Some(<<>>)
        /\ pc = "done" /\ result.kind = "ok"
        /\ \A i \in 1..Len(cmds) : cmds[i].kind \notin ActionKinds

\* C7 witness: two units, one covered by the collective tag of its version and
\* one by its per-unit tag, with a token on `main`.
C7_Witness ==
    /\ tags # None /\ Len(packages) = 2
    /\ HasCollectiveTag(packages[1]) /\ ~HasOwnTag(packages[1])
    /\ HasOwnTag(packages[2]) /\ ~HasCollectiveTag(packages[2])
    /\ params.crates_io_token # None /\ current_branch = Some(Main)
    /\ pc = "done"

\* The units of version v.
UnitsAt(v) == {i \in 1..Len(packages) : packages[i].version = v}

\* C8: when several units share version V and a per-unit tag <name>-vV exists
\* for some of them, only units without such a tag are published (all of them in
\* a publishing run, unless vV exists too), each published unit is tagged
\* <name>-vV, the collective tag vV is never created, and each release holds
\* only the release notes of the unit it is created for.
C8_RemainingTaggedSeparately ==
    \A v \in Versions :
        (tags # None /\ Cardinality(UnitsAt(v)) >= 2
            /\ \E i \in UnitsAt(v) : HasOwnTag(packages[i])) =>
            /\ \A i \in UnitsAt(v) :
                  HasOwnTag(packages[i]) =>
                      packages[i].name \notin Range(ArgsOfKind("cargo publish"))
            /\ (<<"v">> \o v) \notin Range(ArgsOfKind("git tag"))
            /\ \A k \in 1..Len(cmds) :
                  cmds[k].kind = "gh release create" =>
                      \E i \in 1..Len(packages) :
                          /\ cmds[k].arg = packages[i].name \o <<"-", "v">> \o packages[i].version
                          /\ ~AlreadyTagged(packages[i])
                          /\ packages[i].release_notes = Some(cmds[k].stdin)
            /\ PublishingRun =>
                  \A i \in UnitsAt(v) :
                      ~AlreadyTagged(packages[i]) =>
                          /\ packages[i].name \in Range(ArgsOfKind("cargo publish"))
                          /\ (packages[i].name \o <<"-", "v">> \o v)
                                \in Range(ArgsOfKind("git tag"))

\* C8 witness: two units of one version with different notes from the shared
\* change document; the second has its per-unit tag, the first was published,
\* tagged and released with its own notes.
C8_Witness ==
    /\ PublishingRun /\ Len(packages) = 2
    /\ packages[1].version = packages[2].version
    /\ packages[1].release_notes # packages[2].release_notes
    /\ packages[1].changelog_path = None /\ packages[2].changelog_path = None
    /\ HasOwnTag(packages[2]) /\ ~AlreadyTagged(packages[1])
    /\ Len(CmdsOfKind("gh release create")) = 1
    /\ packages[1].release_notes = Some(CmdsOfKind("gh release create")[1].stdin)

----------------------------------------------------------------------------
(* Properties of a whole run (Spec) *)

\* The changelog-mapping check of discovered unit i fails: the change document
\* that applies to it has no entry, or no single entry, for it.
MappingFailsAt(i) ==
    /\ ChangelogPathOf(out[i], workspace) # None
    /\ EntryOf(out[i], files[Unwrap(ChangelogPathOf(out[i], workspace))]).kind = "err"

MappingFails == \E i \in 1..Len(out) : MappingFailsAt(i)

MappingErrors ==
    {"does not contain an entry", "contains multiple entries", "is missing an entry"}

\* C9: the changelog-mapping checks run for the discovered units during
\* pipeline construction (Pipeline::new).  If the check of any unit fails, no
\* external command is ever executed: the run is still in construction or has
\* failed there with the mapping error.  If none fails, every unit that has an
\* applicable change document leaves construction with its release notes.
C9_MappingChecksBeforeCommands ==
    /\ MappingFails =>
          /\ cmds = <<>>
          /\ pc \in {"new", "failed"}
          /\ pc = "failed" =>
                /\ result.kind = "err"
                /\ result.msg \in MappingErrors
                /\ MappingFailsAt(result.who)
    /\ (~MappingFails /\ pc \notin {"new", "panicked"}) =>
          \A i \in 1..Len(packages) :
             ChangelogPathOf(packages[i], workspace) # None
                => packages[i].release_notes # None

\* A run of two units where the check of the second fails: it has ended in
\* construction, with the mapping error and without any command.
C9_Witness ==
    /\ pc = "failed"
    /\ Len(out) = 2
    /\ ~MappingFailsAt(1)
    /\ MappingFailsAt(2)
    /\ result.kind = "err"
    /\ result.msg \in MappingErrors
    /\ cmds = <<>>


----------------------------------------------------------------------------
(* Properties of extract_release_notes (SpecNotes) *)

\* The lines of a text, as the positions where they start, and the line that
\* starts at a position.
LineStarts(text) ==
    {s \in 1..Len(text) : s = 1 \/ text[s - 1] = "\n"}

LineFrom(text, s) ==
    SubSeq(text, s,
           IF \E e \in s..Len(text) : text[e] = "\n"
           THEN (CHOOSE e \in s..Len(text) :
                    text[e] = "\n" /\ \A k \in s..(e - 1) : text[k] # "\n") - 1
           ELSE Len(text))

\* The titles of the headings of a depth in a text.
HeadingTitles(text, level) ==
    {Unwrap(start_of_section(level, LineFrom(text, s))) :
        s \in {t \in LineStarts(text) :
                  start_of_section(level, LineFrom(text, t)) # None}}

\* No title of a heading of depth 1, 2 or 3 contains the version.
NoTitleHasVersion(text, version) ==
    \A level \in 1..3 : \A title \in HeadingTitles(text, level) :
        ~Contains(title, version)

\* The change document that applies to package i, if any.
HasDocument(i) == ChangelogPathOf(packages[i], workspace) # None
DocumentOf(i) == files[Unwrap(ChangelogPathOf(packages[i], workspace))]

Extracted == pc # "extract_release_notes"

\* Package i has a change document in which no title of depth 1 to 3 contains
\* its version.
VersionMissingAt(i) ==
    /\ HasDocument(i)
    /\ NoTitleHasVersion(DocumentOf(i), packages[i].version)

\* C10: for a unit with an applicable change document in which no section
\* title of depth 1, 2 or 3 contains the unit's version, extract_release_notes
\* fails, at that unit or at an earlier one; when it fails at that unit the
\* error is the missing-entry error; and the unit is left without release notes.
C10_VersionMissingFails ==
    Extracted =>
       \A i \in 1..Len(packages) :
          VersionMissingAt(i) =>
             /\ result.kind = "err"
             /\ result.who <= i
             /\ result.who = i => result.msg = "does not contain an entry"
             /\ packages[i].release_notes = None

\* Two units: the first has got its notes, the document of the second mentions
\* its version (in a depth-4 heading or in text) but in no title of depth 1 to 3,
\* and the extraction has failed at the second with the missing-entry error.
C10_Witness ==
    /\ Extracted
    /\ Len(packages) = 2
    /\ packages[1].release_notes # None
    /\ VersionMissingAt(2)
    /\ Contains(DocumentOf(2), packages[2].version)
    /\ result.kind = "err"
    /\ result.who = 2
    /\ result.msg = "does not contain an entry"
    /\ packages[2].release_notes = None

\* The positions where the heading lines of a depth start, the position where
\* the line that starts at s ends, and the body of the section whose heading
\* line starts at s: the trimmed text from after that line up to the next
\* heading line of the same depth, or to the end of the text.
HeadingStarts(text, level) ==
    {s \in LineStarts(text) : start_of_section(level, LineFrom(text, s)) # None}

LineEnd(text, s) == s + Len(LineFrom(text, s))

NextHeading(text, s, level) ==
    IF \E t \in HeadingStarts(text, level) : t > s
    THEN CHOOSE t \in HeadingStarts(text, level) :
            t > s /\ \A u \in HeadingStarts(text, level) : u > s => t <= u
    ELSE Len(text) + 1

BodyAfter(text, s, level) ==
    Trim(SubSeq(text, LineEnd(text, s) + 1, NextHeading(text, s, level) - 1))

TitleAt(text, s, level) == Unwrap(start_of_section(level, LineFrom(text, s)))

\* The heading lines of a depth whose title contains the version.
MatchesAt(text, version, level) ==
    {s \in HeadingStarts(text, level) : Contains(TitleAt(text, s, level), version)}

\* level is the smallest depth in 1..3 at which a title contains the version.
ChosenDepth(text, version, level) ==
    /\ level \in 1..3
    /\ MatchesAt(text, version, level) # {}
    /\ \A shallower \in 1..(level - 1) : MatchesAt(text, version, shallower) = {}

\* The extraction has dealt with package i: it has not failed at an earlier one.
Reached(i) == result.kind = "ok" \/ result.who >= i

\* C11: for a unit with an applicable change document, with d the smallest
\* depth in 1..3 at which a title contains the unit's version: when exactly one
\* title of depth d matches, the extraction does not fail at the unit and the
\* unit's release notes are the body of that section, whatever deeper depths
\* hold and whether or not the title mentions the unit's name.
C11_SingleMatchIsNotes ==
    Extracted =>
       \A i \in 1..Len(packages) : \A d \in 1..3 :
          (/\ HasDocument(i)
           /\ Reached(i)
           /\ ChosenDepth(DocumentOf(i), packages[i].version, d)
           /\ Cardinality(MatchesAt(DocumentOf(i), packages[i].version, d)) = 1)
          => /\ result.kind = "err" => result.who # i
             /\ \A s \in MatchesAt(DocumentOf(i), packages[i].version, d) :
                   packages[i].release_notes = Some(BodyAfter(DocumentOf(i), s, d))

\* One unit whose version is in a single depth-1 title that does not mention
\* the unit's name, and also in a depth-2 title inside that section: the notes
\* are the depth-1 body, with the depth-2 heading line in it.
C11_Witness ==
    /\ Extracted
    /\ HasDocument(1)
    /\ Cardinality(MatchesAt(DocumentOf(1), packages[1].version, 1)) = 1
    /\ MatchesAt(DocumentOf(1), packages[1].version, 2) # {}
    /\ \A s \in MatchesAt(DocumentOf(1), packages[1].version, 1) :
          /\ ~Contains(TitleAt(DocumentOf(1), s, 1), packages[1].name)
          /\ packages[1].release_notes = Some(BodyAfter(DocumentOf(1), s, 1))
          /\ Contains(BodyAfter(DocumentOf(1), s, 1), <<"#", "#", " ">>)

\* The heading lines among the matches whose title contains the name, compared
\* without regard to case, and compared as the code does (the title in lower
\* case, the name as it is written in the manifest).
ContainsIgnoringCase(title, name) ==
    Contains(ToAsciiLowercase(title), ToAsciiLowercase(name))

NamedMatches(text, version, name, level) ==
    {s \in MatchesAt(text, version, level) :
        ContainsIgnoringCase(TitleAt(text, s, level), name)}

NamedMatchesAsWritten(text, version, name, level) ==
    {s \in MatchesAt(text, version, level) :
        Contains(ToAsciiLowercase(TitleAt(text, s, level)), name)}

\* Package i is reached, d is the chosen depth of its document and more than
\* one title of depth d contains its version.
SeveralMatches(i, d) ==
    /\ HasDocument(i)
    /\ Reached(i)
    /\ ChosenDepth(DocumentOf(i), packages[i].version, d)
    /\ Cardinality(MatchesAt(DocumentOf(i), packages[i].version, d)) > 1

\* What the extraction makes of package i given the set of named matches at
\* depth d: notes from the only one, or one of the two errors.
NarrowedTo(i, d, named) ==
    /\ Cardinality(named) = 1 =>
          /\ result.kind = "err" => result.who # i
          /\ \A s \in named :
                packages[i].release_notes = Some(BodyAfter(DocumentOf(i), s, d))
    /\ Cardinality(named) > 1 =>
          /\ result.kind = "err" /\ result.who = i
          /\ result.msg = "contains multiple entries"
          /\ packages[i].release_notes = None
    /\ Cardinality(named) = 0 =>
          /\ result.kind = "err" /\ result.who = i
          /\ result.msg = "is missing an entry"
          /\ packages[i].release_notes = None

\* C12: when more than one title at the chosen depth contains the unit's
\* version, the unit gets notes if and only if exactly one of those titles
\* contains the unit's name compared case-insensitively (the notes are that
\* section's body); with more than one such title the extraction fails with
\* the 'multiple entries' error, with none with the 'missing an entry' error.
C12_NarrowedByNameIgnoringCase ==
    Extracted =>
       \A i \in 1..Len(packages) : \A d \in 1..3 :
          SeveralMatches(i, d) =>
             NarrowedTo(i, d, NamedMatches(DocumentOf(i), packages[i].version,
                                           packages[i].name, d))

\* C12, as the code compares: the same with the name taken as it is written,
\* which agrees with the above for names without upper-case letters.
C12_NarrowedByNameAsWritten ==
    Extracted =>
       \A i \in 1..Len(packages) : \A d \in 1..3 :
          SeveralMatches(i, d) =>
             NarrowedTo(i, d, NamedMatchesAsWritten(DocumentOf(i), packages[i].version,
                                                    packages[i].name, d))

\* The package is named "A", two depth-1 titles contain its version and exactly
\* one of them contains its name without regard to case, yet the extraction
\* has failed with the 'missing an entry' error.
C12_Witness ==
    /\ Extracted
    /\ packages[1].name = <<"A">>
    /\ SeveralMatches(1, 1)
    /\ Cardinality(NamedMatches(DocumentOf(1), packages[1].version,
                                packages[1].name, 1)) = 1
    /\ result.kind = "err"
    /\ result.who = 1
    /\ result.msg = "is missing an entry"
    /\ packages[1].release_notes = None

----------------------------------------------------------------------------
(* Properties of Markdown::sections (SpecMd) *)

\* The length of the run of '#' a line starts with.
HashRun(line) ==
    Cardinality({k \in 1..Len(line) : \A j \in 1..k : line[j] = "#"})

\* The positions where the lines start whose run of leading '#' (on the trimmed
\* line) has length exactly depth, and the k-th of a set of positions.
MarkedStarts(doc, depth) ==
    {s \in LineStarts(doc) : HashRun(Trim(LineFrom(doc, s))) = depth}

Nth(positions, k) ==
    CHOOSE s \in positions : Cardinality({t \in positions : t < s}) = k - 1

\* The title of the heading line that starts at s: the trimmed text after the run.
MarkedTitle(doc, s) ==
    Trim(SubSeq(Trim(LineFrom(doc, s)), HashRun(Trim(LineFrom(doc, s))) + 1,
                Len(Trim(LineFrom(doc, s)))))

\* The body of the heading line that starts at s: the trimmed text from after
\* the line up to the next line in the set of positions, or the end.
MarkedBody(doc, s, positions) ==
    Trim(SubSeq(doc, LineEnd(doc, s) + 1,
                (IF \E t \in positions : t > s
                 THEN Nth(positions, Cardinality({t \in positions : t <= s}) + 1)
                 ELSE Len(doc) + 1) - 1))

\* C13: Markdown::sections(depth) returns, in document order, exactly one
\* (title, body) pair per line whose run of leading '#' has length exactly
\* depth, so none when there is no such line; each body is the trimmed text
\* from after the heading line up to the next heading line of the same depth
\* or the end of the document, heading lines of other depths included.
C13_SectionsPerHeading ==
    (ret.kind = "sections") =>
        /\ Len(ret.value) = Cardinality(MarkedStarts(self0, ret.level))
        /\ \A k \in 1..Len(ret.value) :
              /\ ret.value[k].title =
                    MarkedTitle(self0, Nth(MarkedStarts(self0, ret.level), k))
              /\ ret.value[k].body =
                    MarkedBody(self0, Nth(MarkedStarts(self0, ret.level), k),
                               MarkedStarts(self0, ret.level))

\* A document split at depth 2 in two sections, the first of which keeps a
\* depth-1 and a depth-3 heading line in its body.
C13_Witness ==
    /\ ret.kind = "sections"
    /\ ret.level = 2
    /\ Len(ret.value) = 2
    /\ Contains(ret.value[1].body, <<"#", " ", "1", "\n">>)
    /\ Contains(ret.value[1].body, <<"#", "#", "#">>)

\* The document has been split at depth 2 and every body again at depth 3.
Resplit == ret.kind = "sections_of_bodies" /\ ret.outer = 2 /\ ret.level = 3

\* The depth-3 heading lines in the range of the k-th depth-2 section: after its
\* heading line and before the next depth-2 heading line.
RangeStart(k) == Nth(MarkedStarts(self0, 2), k)

RangeEnd(k) ==
    IF k < Cardinality(MarkedStarts(self0, 2))
    THEN Nth(MarkedStarts(self0, 2), k + 1)
    ELSE Len(self0) + 1

InRange(k) ==
    {s \in MarkedStarts(self0, 3) : RangeStart(k) < s /\ s < RangeEnd(k)}

\* The index, in the split of the whole document at depth 3, of the section
\* whose heading line starts at s.
IndexInWhole(s) == Cardinality({t \in MarkedStarts(self0, 3) : t <= s})

\* C14 as stated: splitting at depth 2 and then each body at depth 3 yields
\* exactly the (title, body) pairs that splitting the whole document at depth 3
\* yields for the headings inside each depth-2 section's range.
C14_ResplitEqualsWhole ==
    Resplit =>
       \A k \in 1..Len(ret.sub) :
          /\ Len(ret.sub[k]) = Cardinality(InRange(k))
          /\ \A m \in 1..Len(ret.sub[k]) :
                ret.sub[k][m] = sections(self0, 3)[IndexInWhole(Nth(InRange(k), m))]

\* C14 amended: the sub-sections are one per depth-3 heading line of the range,
\* in order, with the titles of the whole-document split; each body is the
\* trimmed text up to the next heading line of depth 3 or 2, or the end.  It is
\* the whole-document body unless a depth-2 heading line comes before the next
\* depth-3 heading line: then the whole-document body runs on past it, and the
\* two differ.
C14_ResplitEndsAtDepth2 ==
    Resplit =>
       \A k \in 1..Len(ret.sub) :
          /\ Len(ret.sub[k]) = Cardinality(InRange(k))
          /\ \A m \in 1..Len(ret.sub[k]) :
                /\ ret.sub[k][m].title =
                      sections(self0, 3)[IndexInWhole(Nth(InRange(k), m))].title
                /\ ret.sub[k][m].body =
                      MarkedBody(self0, Nth(InRange(k), m),
                                 MarkedStarts(self0, 3) \cup MarkedStarts(self0, 2))
                /\ (ret.sub[k][m].body =
                       sections(self0, 3)[IndexInWhole(Nth(InRange(k), m))].body)
                   <=> ~(m = Len(ret.sub[k]) /\ k < Len(ret.sub))

\* Two depth-2 sections, the first with a sub-section: its body after the
\* re-split is not the body the whole-document split gives it.
C14_Witness ==
    /\ Resplit
    /\ Len(ret.sub) = 2
    /\ Len(ret.sub[1]) = 1
    /\ ret.sub[1][1].title = sections(self0, 3)[1].title
    /\ ret.sub[1][1].body # sections(self0, 3)[1].body
    /\ Contains(sections(self0, 3)[1].body, <<"#", "#", " ">>)

----------------------------------------------------------------------------
(* Properties of Toml::get_field and Toml::sections (SpecToml) *)

\* The first line of the text that starts with `name = `, as the position where
\* it starts (0: none).
FieldLines(doc, name) ==
    {s \in LineStarts(doc) : StartsWith(LineFrom(doc, s), name \o <<" ", "=", " ">>)}

FirstFieldLine(doc, name) ==
    IF FieldLines(doc, name) = {} THEN 0 ELSE Nth(FieldLines(doc, name), 1)

\* What follows `name = ` on the line that starts at s.
AfterEquals(doc, s, name) ==
    SubSeq(LineFrom(doc, s), Len(name) + 4, Len(LineFrom(doc, s)))

\* The line is `name = "s"` with the string closed on the line: an opening
\* quote and a closing one after it.  QuotedString is the text between them.
ClosedString(doc, s, name) ==
    /\ StartsWith(AfterEquals(doc, s, name), <<"\"">>)
    /\ IndexOf(Tail(AfterEquals(doc, s, name)), "\"") # 0

QuotedString(doc, s, name) ==
    SubSeq(Tail(AfterEquals(doc, s, name)), 1,
           IndexOf(Tail(AfterEquals(doc, s, name)), "\"") - 1)

UnclosedString(doc, s, name) ==
    /\ StartsWith(AfterEquals(doc, s, name), <<"\"">>)
    /\ IndexOf(Tail(AfterEquals(doc, s, name)), "\"") = 0

GotField == ret.kind = "get_field"

\* C15: when the (first) line for a key is `key = "s"` with the string closed
\* on that line, get_field(key) returns the string s between the quotes; and
\* get_field fails fatally only when the quote is not closed on that line.
C15_ClosedStringReturned ==
    (GotField /\ FirstFieldLine(self0, ret.name) # 0) =>
        /\ ClosedString(self0, FirstFieldLine(self0, ret.name), ret.name) =>
              ret.value = Ok(Str(QuotedString(self0, FirstFieldLine(self0, ret.name),
                                              ret.name)))
        /\ ret.value.kind = "panic" =>
              UnclosedString(self0, FirstFieldLine(self0, ret.name), ret.name)

\* C15, as the code reads a line: the same for a string without white space,
\* while a closed string with white space in it fails like an unclosed one.
C15_ClosedWordReturned ==
    (GotField /\ FirstFieldLine(self0, ret.name) # 0) =>
        /\ (/\ ClosedString(self0, FirstFieldLine(self0, ret.name), ret.name)
            /\ \A i \in DOMAIN QuotedString(self0, FirstFieldLine(self0, ret.name), ret.name) :
                  ~IsWhitespace(QuotedString(self0, FirstFieldLine(self0, ret.name),
                                             ret.name)[i]))
           => ret.value = Ok(Str(QuotedString(self0, FirstFieldLine(self0, ret.name),
                                              ret.name)))
        /\ (/\ ClosedString(self0, FirstFieldLine(self0, ret.name), ret.name)
            /\ \E i \in DOMAIN QuotedString(self0, FirstFieldLine(self0, ret.name), ret.name) :
                  IsWhitespace(QuotedString(self0, FirstFieldLine(self0, ret.name),
                                            ret.name)[i]))
           => ret.value.kind = "panic"

\* The line for the key is `k = "a b"`, closed on the line, and get_field has
\* failed fatally.
C15_Witness ==
    /\ GotField
    /\ FirstFieldLine(self0, ret.name) # 0
    /\ ClosedString(self0, FirstFieldLine(self0, ret.name), ret.name)
    /\ QuotedString(self0, FirstFieldLine(self0, ret.name), ret.name) = <<"a", " ", "b">>
    /\ ret.value = Panic("unclosed string, or trailing comment")

\* A trimmed line is a bracketed header: it opens with one or two brackets and
\* has a closing bracket after them.  Its name is the trimmed text between the
\* opening and the first closing bracket.
Opening(t) == IF StartsWith(t, <<"[", "[">>) THEN 2 ELSE 1

IsHeader(t) ==
    /\ StartsWith(t, <<"[">>)
    /\ \E i \in (Opening(t) + 1)..Len(t) : t[i] = "]"

NameInBrackets(t) ==
    Trim(SubSeq(t, Opening(t) + 1,
                (CHOOSE i \in (Opening(t) + 1)..Len(t) :
                    t[i] = "]" /\ \A k \in (Opening(t) + 1)..(i - 1) : t[k] # "]") - 1))

HeaderStarts(doc) == {s \in LineStarts(doc) : IsHeader(Trim(LineFrom(doc, s)))}

GotSections == pc = "returned" /\ ret.kind = "sections"

\* C16: Toml::sections returns, in document order, one (name, body) pair per
\* line that is a bracketed header, `[name]` or `[[name]]`, leading white space
\* and what follows the closing bracket left out and the name kept whole; a
\* repeated header gives an entry each time.  Each body is the trimmed text
\* between the header line and the next header line or the end of the text;
\* the text before the first header is in no body.
C16_SectionsPerHeader ==
    GotSections =>
        /\ Len(ret.value) = Cardinality(HeaderStarts(self0))
        /\ \A k \in 1..Len(ret.value) :
              /\ ret.value[k].name =
                    NameInBrackets(Trim(LineFrom(self0, Nth(HeaderStarts(self0), k))))
              /\ ret.value[k].body =
                    MarkedBody(self0, Nth(HeaderStarts(self0), k), HeaderStarts(self0))

\* A text that starts with a field line, followed by the indented array header
\* with a comment and by the dotted, quoted header: two entries, the field line
\* in neither body.
C16_Witness ==
    /\ GotSections
    /\ StartsWith(self0, <<"k", " ", "=">>)
    /\ Len(ret.value) = 2
    /\ ret.value[1].name = <<"a">>
    /\ ret.value[2].name = <<"a", ".", "\"", "b", " ", "c", "\"", ".", "d">>
    /\ \A k \in 1..2 : ~Contains(ret.value[k].body, <<"k", " ", "=">>)

----------------------------------------------------------------------------
(* The release notes of a collective release (SpecPublish) *)

\* The units to publish that have notes, as positions in publish order, and
\* those among them that are kept: the first, and each whose notes differ from
\* the notes of the unit with notes before it.
WithNotes == {i \in 1..Len(Unwrap(to_publish)) : Unwrap(to_publish)[i].release_notes # None}

NotesBefore(i) == {j \in WithNotes : j < i}

Latest(S) == CHOOSE j \in S : \A k \in S : k <= j

Kept ==
    {i \in WithNotes :
        \/ NotesBefore(i) = {}
        \/ Unwrap(to_publish)[Latest(NotesBefore(i))].release_notes
              # Unwrap(to_publish)[i].release_notes}

\* The text a kept unit contributes to the release body: its notes and a line
\* end, after a `# <name> <version>` line and an empty line when headings are
\* written; every contribution but the first follows an empty line.
Contribution(p, headed) ==
    (IF headed
     THEN <<"#", " ">> \o p.name \o <<" ">> \o p.version \o <<"\n", "\n">>
     ELSE <<>>)
        \o Unwrap(p.release_notes) \o <<"\n">>

RECURSIVE BodyOf(_, _)
BodyOf(k, headed) ==
    IF k = 0 THEN <<>>
    ELSE BodyOf(k - 1, headed)
            \o (IF k > 1 THEN <<"\n">> ELSE <<>>)
            \o Contribution(Unwrap(to_publish)[Nth(Kept, k)], headed)

CollectiveRun ==
    /\ PublishingRun
    /\ Unwrap(to_publish) # <<>>
    /\ separate_tags = Some(FALSE)

\* C20: in collective mode, when at least one unit to publish has release
\* notes, exactly one release body is assembled (and, with a GitHub token,
\* passed to the one `gh release create v<version>`): the notes, in publish
\* order, of the units that have notes, without a unit whose notes equal those
\* of the entry kept just before it, each under a `# <name> <version>` heading
\* if and only if more than one entry is kept.
C20_CollectiveBody ==
    (CollectiveRun /\ WithNotes # {} /\ params.github_token # None) =>
        /\ Len(CmdsOfKind("gh release create")) = 1
        /\ CmdsOfKind("gh release create")[1].arg
              = <<"v">> \o Unwrap(to_publish)[1].version
        /\ CmdsOfKind("gh release create")[1].stdin
              = BodyOf(Cardinality(Kept), Cardinality(Kept) > 1)

\* Two units with different notes were released together, under headings.
C20_Witness ==
    /\ CollectiveRun /\ params.github_token # None
    /\ Cardinality(Kept) = 2
    /\ Len(CmdsOfKind("gh release create")) = 1
    /\ StartsWith(CmdsOfKind("gh release create")[1].stdin, <<"#", " ", "a", " ">>)

----------------------------------------------------------------------------
(* Properties of the workspace scan (SpecScan) *)

\* The directories the walk enters (none below a test directory), and those
\* among them that hold a manifest.
RECURSIVE Entered(_)
Entered(d) ==
    \/ d = 1
    \/ ~files[files[d].parent].is_test_dir /\ Entered(files[d].parent)

Scanned == {d \in 1..Len(files) : Entered(d) /\ files[d].manifest # None}

TextOf(d) == Unwrap(files[d].manifest)

\* What a manifest says, read line by line.
HasLine(doc, line) == \E s \in LineStarts(doc) : Trim(LineFrom(doc, s)) = line

DeclaresPackage(doc) == HasLine(doc, LinePackage)

SetsPublishFalse(doc) ==
    /\ FieldLines(doc, FieldPublish) # {}
    /\ AfterEquals(doc, FirstFieldLine(doc, FieldPublish), FieldPublish)
          = <<"f", "a", "l", "s", "e">>

DeclaresVersion(doc) == FieldLines(doc, FieldVersion) # {}

DefersVersion(doc) == FieldLines(doc, FieldVersionWorkspace) # {}

NameIn(doc) == QuotedString(doc, FirstFieldLine(doc, FieldName), FieldName)

PublishableAt(d) ==
    /\ DeclaresPackage(TextOf(d))
    /\ ~SetsPublishFalse(TextOf(d))
    /\ DeclaresVersion(TextOf(d)) \/ DefersVersion(TextOf(d))

ScanReturned == pc = "returned" /\ ret.kind = "find_packages"
ScanSucceeded == ScanReturned /\ ret.value.kind = "ok"

UnitsNamed(name) == {k \in 1..Len(ret.value.value) : ret.value.value[k].name = name}

\* C17: when the scan succeeds, the manifest of a directory the walk enters
\* yields a unit if and only if it declares a package ([package]), does not
\* set publish = false, and has a version line or a version.workspace line;
\* the list holds no other unit.
C17_UnitIffPublishable ==
    ScanSucceeded =>
        /\ Len(ret.value.value) = Cardinality({d \in Scanned : PublishableAt(d)})
        /\ \A d \in Scanned :
              PublishableAt(d) <=>
                  /\ FieldLines(TextOf(d), FieldName) # {}
                  /\ UnitsNamed(NameIn(TextOf(d))) # {}

\* The scan succeeded on a project directory with a package and a directory
\* below it whose package sets publish = false: one unit.
C17_Witness ==
    /\ ScanSucceeded
    /\ Scanned = {1, 2}
    /\ PublishableAt(1)
    /\ DeclaresPackage(TextOf(2)) /\ DeclaresVersion(TextOf(2))
    /\ SetsPublishFalse(TextOf(2))
    /\ Len(ret.value.value) = 1

\* The version the manifest of the project directory declares for the
\* workspace: that of its package.version line or else that of the version
\* line in its [workspace.package] section; None when it has neither.
WorkspacePackageStarts(doc) ==
    {s \in HeaderStarts(doc) : NameInBrackets(Trim(LineFrom(doc, s))) = WorkspacePackage}

WorkspacePackageBody(doc) ==
    MarkedBody(doc, Nth(WorkspacePackageStarts(doc), 1), HeaderStarts(doc))

StringOf(doc, name) ==
    IF FieldLines(doc, name) # {} /\ ClosedString(doc, FirstFieldLine(doc, name), name)
    THEN Some(QuotedString(doc, FirstFieldLine(doc, name), name))
    ELSE None

RootDeclares ==
    IF files[1].manifest = None THEN None
    ELSE IF FieldLines(TextOf(1), FieldPackageVersion) # {}
    THEN StringOf(TextOf(1), FieldPackageVersion)
    ELSE IF WorkspacePackageStarts(TextOf(1)) # {}
    THEN StringOf(WorkspacePackageBody(TextOf(1)), FieldVersion)
    ELSE None

UnitOf(d) == ret.value.value[Nth(UnitsNamed(NameIn(TextOf(d))), 1)]

DefersOnly(d) ==
    /\ PublishableAt(d)
    /\ ~DeclaresVersion(TextOf(d))
    /\ DefersVersion(TextOf(d))

\* C18: the version of a discovered unit is the string of its manifest's
\* `version` line when it has one; when the manifest has `version.workspace =
\* true` and no `version` line it is the version the workspace root declares;
\* and when such a manifest is scanned while the root declares no version,
\* find_packages fails with an error and returns no list (as it does not when
\* the root has a manifest and every unit a name and its own or the root's
\* version).
C18_VersionOfUnit ==
    ScanReturned =>
        /\ ret.value.kind = "ok" =>
              \A d \in {e \in Scanned : PublishableAt(e)} :
                 IF DeclaresVersion(TextOf(d))
                 THEN Some(UnitOf(d).version) = StringOf(TextOf(d), FieldVersion)
                 ELSE Some(UnitOf(d).version) = RootDeclares
        /\ (RootDeclares = None /\ \E d \in Scanned : DefersOnly(d)) =>
              ret.value.kind = "err"
        /\ (/\ files[1].manifest # None
            /\ \A d \in {e \in Scanned : PublishableAt(e)} :
                /\ StringOf(TextOf(d), FieldName) # None
                /\ IF DeclaresVersion(TextOf(d))
                   THEN StringOf(TextOf(d), FieldVersion) # None
                   ELSE RootDeclares # None) =>
              ret.value.kind # "err"

\* The scan returned two units: the package of the project directory with its
\* own version and, from the directory below, a package that has only
\* `version.workspace = true`, with the version of [workspace.package].
C18_Witness ==
    /\ ScanSucceeded
    /\ Scanned = {1, 2}
    /\ DefersOnly(2)
    /\ WorkspacePackageStarts(TextOf(1)) # {}
    /\ Len(ret.value.value) = 2
    /\ UnitOf(1).version = OwnVersion
    /\ UnitOf(2).version = SharedVersion

----------------------------------------------------------------------------
(* The releases of a per-unit publishing run (SpecPublish) *)

SeparateRun ==
    /\ PublishingRun
    /\ Unwrap(to_publish) # <<>>
    /\ separate_tags = Some(TRUE)

OwnTagOf(p) == p.name \o <<"-", "v">> \o p.version

ReleasesTagged(tag) ==
    {k \in 1..Len(cmds) : cmds[k].kind = "gh release create" /\ cmds[k].arg = tag}

\* C21: in per-unit mode every unit to publish that has release notes gets
\* exactly one release, tagged <name>-v<version>, whose body is its own notes;
\* a unit without notes gets its tag and no release; and there is no other
\* release (none that merges notes, none for the collective tag).
C21_OneReleasePerUnit ==
    SeparateRun =>
        /\ \A i \in 1..Len(Unwrap(to_publish)) :
              /\ OwnTagOf(Unwrap(to_publish)[i]) \in Range(ArgsOfKind("git tag"))
              /\ IF Unwrap(to_publish)[i].release_notes # None
                 THEN /\ Cardinality(ReleasesTagged(OwnTagOf(Unwrap(to_publish)[i]))) = 1
                      /\ \A k \in ReleasesTagged(OwnTagOf(Unwrap(to_publish)[i])) :
                            Some(cmds[k].stdin) = Unwrap(to_publish)[i].release_notes
                 ELSE ReleasesTagged(OwnTagOf(Unwrap(to_publish)[i])) = {}
        /\ \A k \in 1..Len(cmds) :
              cmds[k].kind = "gh release create" =>
                  \E i \in 1..Len(Unwrap(to_publish)) :
                      cmds[k].arg = OwnTagOf(Unwrap(to_publish)[i])

\* A per-unit run of two units, the first with notes and the second without:
\* two tags, one release.
C21_Witness ==
    /\ SeparateRun
    /\ Len(Unwrap(to_publish)) = 2
    /\ Unwrap(to_publish)[1].release_notes # None
    /\ Unwrap(to_publish)[2].release_notes = None
    /\ Len(ArgsOfKind("git tag")) = 2
    /\ Len(CmdsOfKind("gh release create")) = 1

----------------------------------------------------------------------------
(* Release notes and publish candidates (Spec) *)

\* C22: release_notes is populated only for a publish candidate: a unit that
\* the existing tags already cover (v<version> or <name>-v<version>) has
\* release_notes = None.
C22_NotesOnlyForCandidates ==
    tags # None =>
        \A i \in 1..Len(packages) :
            AlreadyTagged(packages[i]) => packages[i].release_notes = None

\* The step read the tags, a unit is covered by one of them, and its notes were
\* extracted when the pipeline was constructed.
C22_Witness ==
    /\ tags # None
    /\ pc = "done"
    /\ \E i \in 1..Len(packages) :
          /\ AlreadyTagged(packages[i])
          /\ packages[i].release_notes # None
          /\ packages[i].name \notin Range(ArgsOfKind("cargo publish"))

----------------------------------------------------------------------------
(* The checks before the publish step (Spec) *)

\* A publish action: a cargo publish, git tag, git push or gh release command.
ActionRan == \E i \in 1..Len(cmds) : cmds[i].kind \in ActionKinds

\* The commands of step_test ran, one after the other, before position n.
TestsRanBefore(n) ==
    \E k \in 1..n :
        /\ k + Len(TestCmds(params.check_only, params.skip_docs)) <= n
        /\ SubSeq(cmds, k, k + Len(TestCmds(params.check_only, params.skip_docs)) - 1)
              = TestCmds(params.check_only, params.skip_docs)

\* git status and git rev-parse ran before position n, after the tests.
GitcheckRanBefore(n) ==
    \E i, j \in 1..(n - 1) :
        /\ i < j
        /\ cmds[i].kind = "git status --porcelain"
        /\ cmds[j].kind = "git rev-parse HEAD"
        /\ TestsRanBefore(i)

\* step_gitcheck found a clean work tree and HEAD at the expected commit.
GitcheckPassed ==
    /\ ret.kind = "shell_output"
    /\ Len(ret.value) = 2
    /\ Trim(ret.value[1]) = <<>>
    /\ Trim(ret.value[2]) = params.commit

Complete(pkgs) ==
    \A i \in 1..Len(pkgs) : pkgs[i].manifest.description /\ pkgs[i].manifest.license

MissingField ==
    /\ result.kind = "err"
    /\ result.msg \in {"is missing a description field", "is missing a license field"}

\* C23: no cargo publish, git tag, git push or gh release command runs unless
\* step_test, step_gitcheck (clean work tree, HEAD at the expected commit) and
\* step_manifest_check (every unit has a description and a license) succeeded
\* earlier in the run; with a unit that lacks its description or license the
\* run never reaches the publish step, and when the manifest check reports the
\* missing field the tests have run and no publish action has.
C23_PublishOnlyAfterChecks ==
    /\ \A n \in 1..Len(cmds) :
          cmds[n].kind \in ActionKinds =>
              TestsRanBefore(n) /\ GitcheckRanBefore(n) /\ GitcheckPassed
                  /\ Complete(packages)
    /\ pc \in {"publish", "done"} =>
          TestsRanBefore(Len(cmds) + 1) /\ GitcheckPassed /\ Complete(out)
    /\ ~Complete(out) => pc \notin {"publish", "done"} /\ ~ActionRan
    /\ MissingField =>
          /\ pc = "failed"
          /\ ~Complete(packages)
          /\ TestsRanBefore(Len(cmds) + 1)
          /\ GitcheckPassed
          /\ ~ActionRan

\* C23 witnesses: a run that published after the three checks, and a run that
\* the manifest check ended for a missing license after the tests ran.
C23_Witness ==
    /\ PublishingRun
    /\ ActionRan
    /\ Len(packages) = 2
    /\ GitcheckPassed

C23_WitnessMissing ==
    /\ MissingField
    /\ result.msg = "is missing a license field"
    /\ Len(packages) = 2
    /\ packages[1].manifest.license
    /\ cmds # <<>>

----------------------------------------------------------------------------
(* The failure of sort_packages on a cycle, and self-references (SpecSort) *)

\* Unit i is ready at the start: no unit depends on it.
ReadyAtStart(i) == \A e \in UnitEdges : e[2] # i

\* C24: whenever the dependency edges contain a cycle, sort_packages fails with
\* "dependency cycle detected", whether or not a unit outside the cycle is ready
\* at the start.
C24_CycleMessage ==
    (Finished /\ HasCycle) =>
        (sorted.kind = "panic" /\ sorted.msg = "dependency cycle detected")

\* C24 witness: two units that depend on each other, a third unit that is ready
\* at the start, no self-reference, and a failure with another message.
C24_Witness ==
    /\ pc = "panicked"
    /\ Len(out) = 3
    /\ \E i, j \in 1..Len(out) :
          i # j /\ <<i, j>> \in UnitEdges /\ <<j, i>> \in UnitEdges
    /\ \A i \in 1..Len(out) : <<i, i>> \notin UnitEdges
    /\ \E i \in 1..Len(out) : ReadyAtStart(i)
    /\ sorted.kind = "panic"
    /\ sorted.msg # "dependency cycle detected"

\* The packages with the lines naming the package itself taken out of its
\* dependency sections.
WithoutSelf(pkgs) ==
    [i \in 1..Len(pkgs) |->
        [pkgs[i] EXCEPT !.manifest.dep_keys =
            SelectSeq(pkgs[i].manifest.dep_keys, LAMBDA k : k # pkgs[i].name)]]

SelfReference(i) == SeqContains(out[i].manifest.dep_keys, out[i].name)

\* C25: a self-reference is ignored: sort_packages returns for the units what it
\* returns for them without the lines that name the unit itself.
C25_SelfReferenceIgnored ==
    Finished =>
        /\ sorted.kind = sort_packages(WithoutSelf(out)).kind
        /\ sorted.kind = "ok" =>
              [i \in 1..Len(sorted.list) |-> sorted.list[i].name]
                  = [i \in 1..Len(sorted.list) |->
                        sort_packages(WithoutSelf(out)).list[i].name]

\* C25 witness: the only dependency line of the units is a unit's line naming
\* itself; the units are sorted without it, and not with it.
C25_Witness ==
    /\ pc = "panicked"
    /\ Len(out) = 2
    /\ UnitEdges = {<<1, 1>>}
    /\ sort_packages(WithoutSelf(out)).kind = "ok"

----------------------------------------------------------------------------
(* GitHub releases and the GitHub token (SpecPublish) *)

\* C26: without a GitHub token no gh release create command is executed, in
\* collective mode or in separate mode.
C26_NoReleaseWithoutToken ==
    params.github_token = None => CmdsOfKind("gh release create") = <<>>

\* C26 witness: a completed per-unit run without a GitHub token that created a
\* release for a unit with notes.
C26_Witness ==
    /\ SeparateRun
    /\ params.github_token = None
    /\ \E i \in 1..Len(Unwrap(to_publish)) :
          /\ Unwrap(to_publish)[i].release_notes # None
          /\ ReleasesTagged(OwnTagOf(Unwrap(to_publish)[i])) # {}

----------------------------------------------------------------------------
(* The order of the commands of step_publish (SpecPublish) *)

PositionsOfKind(kind) == {k \in 1..Len(cmds) : cmds[k].kind = kind}

NamesToPublish == [i \in 1..Len(Unwrap(to_publish)) |-> Unwrap(to_publish)[i].name]

\* The tags of the run: one per unit to publish, or the collective tag.
TagsToCreate ==
    IF separate_tags = Some(TRUE)
    THEN [i \in 1..Len(Unwrap(to_publish)) |-> OwnTagOf(Unwrap(to_publish)[i])]
    ELSE <<<<"v">> \o Unwrap(to_publish)[1].version>>

\* A command was attempted after the two reads.
Attempted == Resolved /\ \E k \in 1..Len(cmds) : cmds[k].kind \in ActionKinds

\* C27: the cargo publish commands are issued in publish order, and all of them
\* before the first git tag; every tag before git push --tags; every gh release
\* create after the push; a failed command is the last one of the run, and a
\* run that returns success has issued them all.
C27_CommandOrder ==
    Attempted =>
        /\ StartsWith(NamesToPublish, ArgsOfKind("cargo publish"))
        /\ StartsWith(TagsToCreate, ArgsOfKind("git tag"))
        /\ Len(CmdsOfKind("git push --tags")) <= 1
        /\ \A i \in PositionsOfKind("cargo publish"), j \in PositionsOfKind("git tag") :
              i < j
        /\ PositionsOfKind("git tag") # {} =>
              ArgsOfKind("cargo publish") = NamesToPublish
        /\ \A i \in PositionsOfKind("git tag"), j \in PositionsOfKind("git push --tags") :
              i < j
        /\ PositionsOfKind("git push --tags") # {} =>
              ArgsOfKind("git tag") = TagsToCreate
        /\ \A j \in PositionsOfKind("gh release create") :
              \E i \in PositionsOfKind("git push --tags") : i < j
        /\ result.kind = "ok" =>
              /\ ArgsOfKind("cargo publish") = NamesToPublish
              /\ ArgsOfKind("git tag") = TagsToCreate
              /\ PositionsOfKind("git push --tags") # {}
        /\ \A k \in 1..Len(cmds) :
              cmds[k].kind \notin ActionKinds =>
                  \A j \in 1..Len(cmds) : cmds[j].kind \in ActionKinds => k < j

\* C27 witnesses: a completed run that published two units, tagged each,
\* pushed and created a release; and a run that a failing git tag ended after
\* every cargo publish, with no push and no release.
C27_Witness ==
    /\ SeparateRun
    /\ Len(CmdsOfKind("cargo publish")) = 2
    /\ Len(CmdsOfKind("git tag")) = 2
    /\ CmdsOfKind("gh release create") # <<>>
    /\ NamesToPublish = <<<<"a">>, <<"b">>>>

C27_WitnessFailed ==
    /\ pc = "failed"
    /\ Attempted
    /\ Len(CmdsOfKind("cargo publish")) = 2
    /\ Len(CmdsOfKind("git tag")) = 1
    /\ separate_tags = Some(TRUE)
    /\ cmds[Len(cmds)].kind = "git tag"

----------------------------------------------------------------------------
(* The conditions of publishing (SpecPublish) *)

MayPublish == params.crates_io_token # None /\ current_branch = Some(Main)

StepEnded == pc \in {"done", "failed"}

\* C28 as stated: step_publish executes a cargo publish, git tag, git push or
\* gh release command only when a crates.io token is configured and the current
\* branch is exactly main; in every other case it returns success having
\* executed none of them.  (Read for the runs in which git branch and
\* git tag --list succeeded.)
C28_Original ==
    /\ ActionRan => MayPublish
    /\ (StepEnded /\ tags # None /\ ~MayPublish) => (result.kind = "ok" /\ ~ActionRan)

\* C28 as amended: step_publish executes a cargo publish, git tag, git push or
\* gh release command only when a crates.io token is configured and the current
\* branch is exactly main; in every other case no such command is executed, and
\* the step returns success provided that git branch and git tag --list
\* succeeded and at least one unit was discovered.
C28_Amended ==
    /\ ActionRan => MayPublish
    /\ (StepEnded /\ ~MayPublish) =>
          /\ ~ActionRan
          /\ (tags # None /\ packages # <<>>) => (pc = "done" /\ result.kind = "ok")
          /\ result.kind = "err" =>
                \/ packages = <<>> /\ result.msg = "no publishable packages found"
                \/ tags = None /\ result.msg = "$status"

\* C28 witness: units that need publishing, a crates.io token, and a branch
\* other than main: the step returned success after the two reads.
C28_Witness ==
    /\ pc = "done"
    /\ result.kind = "ok"
    /\ params.crates_io_token # None
    /\ current_branch # None /\ current_branch # Some(Main)
    /\ Resolved /\ Len(Unwrap(to_publish)) = 2
    /\ ~ActionRan
    /\ Len(cmds) = 2

----------------------------------------------------------------------------
(* Running step_publish again (SpecRerun) *)

BranchReads == PositionsOfKind("git branch --show-current")

\* step_publish was entered a second time.
Reran == Cardinality(BranchReads) = 2

SecondRead == CHOOSE k \in BranchReads : \A j \in BranchReads : j <= k

\* The second run could not read the branch or the tags.
RereadFailed ==
    /\ result.kind = "err"
    /\ cmds[Len(cmds)].kind \in {"git branch --show-current", "git tag --list"}

\* C29: after a run of step_publish that published (token set, on main, every
\* command succeeding), step_publish run again on the same units, with the
\* tags of the first run added to the existing ones, finds to_publish empty,
\* executes no publish, tag, push or release command and returns success.
C29_RerunPublishesNothing ==
    Reran =>
        /\ \A k \in 1..Len(cmds) : cmds[k].kind \in ActionKinds => k < SecondRead
        /\ ~RereadFailed =>
              /\ to_publish = Some(<<>>)
              /\ pc = "done"
              /\ result.kind = "ok"
              /\ CreatedTags \subseteq Unwrap(tags)

\* C29 witness: the first run published two units and tagged each; the second
\* run, with a token on main, read the tags and returned.
C29_Witness ==
    /\ Reran
    /\ ~RereadFailed
    /\ params.crates_io_token # None
    /\ current_branch = Some(Main)
    /\ Len(CmdsOfKind("cargo publish")) = 2
    /\ Len(CmdsOfKind("git tag")) = 2
    /\ pc = "done"

----------------------------------------------------------------------------
(* The tags step_publish creates (SpecPublish) *)

TagPositions == PositionsOfKind("git tag")

\* C30: every tag that step_publish creates, the collective v<version> or a
\* per-unit <name>-v<version>, is absent from the existing tags read at the
\* start of the step, and (unit names being unique) no tag is created twice in
\* one run.
C30_TagsAreNew ==
    /\ \A k \in TagPositions :
          /\ tags # None
          /\ cmds[k].arg \notin Unwrap(tags)
          /\ \/ cmds[k].arg = <<"v">> \o Unwrap(to_publish)[1].version
             \/ \E i \in 1..Len(Unwrap(to_publish)) :
                   cmds[k].arg = OwnTagOf(Unwrap(to_publish)[i])
    /\ \A k, l \in TagPositions : cmds[k].arg = cmds[l].arg => k = l

\* C30 witnesses: a collective tag created while other tags exist, and two
\* per-unit tags created while a tag of the same version exists.
C30_Witness ==
    /\ PublishingRun
    /\ separate_tags = Some(FALSE)
    /\ Unwrap(tags) # {}
    /\ Len(packages) = 2
    /\ ArgsOfKind("git tag") = <<<<"v">> \o packages[1].version>>

C30_WitnessSeparate ==
    /\ PublishingRun
    /\ separate_tags = Some(TRUE)
    /\ Cardinality(TagPositions) = 2
    /\ \E tag \in Unwrap(tags) : IsSuffix(packages[1].version, tag)

====
